---- MODULE Spec2Model ----
(***************************************************************************)
(* Live markdown preview of the teacher-docs editor                        *)
(* (src/teacher-docs-editor/src/editor/livePreview.ts), the document tabs  *)
(* of the application (src/teacher-docs-editor/src/app/App.tsx) and the    *)
(* assembly of the preview (src/teacher-docs-editor/src/repo/              *)
(* blockResolver.ts).                                                      *)
(*                                                                         *)
(* A document is a sequence of one-character strings; offsets are 0-based  *)
(* as in the source, so the character at offset i of text t is t[i + 1].   *)
(* The plugin state is the decoration set last built from the view's       *)
(* document, visible ranges and main selection.                            *)
(***************************************************************************)
EXTENDS Integers, Sequences, FiniteSets, TLC

VARIABLES doc, sel, visibleRanges, decorations, tableDom, opts,
          openOrder, tabsByPath, activePath, untitledCounter, saveAsState,
          repoFiles, calls, previewHtml

\* The state of the editor view and its plugin.
editorVars == <<doc, sel, visibleRanges, decorations, tableDom, opts>>

\* The state of the application around it: the document tabs, the save-as
\* dialog, the files of the repository, the asynchronous calls in flight and
\* the preview.
appVars ==
    <<openOrder, tabsByPath, activePath, untitledCounter, saveAsState, repoFiles, calls,
      previewHtml>>

vars == <<doc, sel, visibleRanges, decorations, tableDom, opts,
          openOrder, tabsByPath, activePath, untitledCounter, saveAsState,
          repoFiles, calls, previewHtml>>

(***************************************************************************)
(* String primitives of the host language, over character sequences.        *)
(***************************************************************************)

\* The backquote character (U+0060), which a TLA+ string literal cannot hold.
Tick == "TICK"

\* text.charAt(i): "" outside the text.
CharAt(text, i) == IF i >= 0 /\ i < Len(text) THEN text[i + 1] ELSE ""

\* text.slice(from, to) / doc.sliceString(from, to).
Slice(text, from, to) == SubSeq(text, from + 1, to)

\* The characters the regex class \s and String.trim() treat as blank.
WhiteSpace == {" ", "\t", "\n", "\r"}

\* The characters of the class [a-zA-Z0-9_-].
IdChars ==
    {"a","b","c","d","e","f","g","h","i","j","k","l","m",
     "n","o","p","q","r","s","t","u","v","w","x","y","z",
     "A","B","C","D","E","F","G","H","I","J","K","L","M",
     "N","O","P","Q","R","S","T","U","V","W","X","Y","Z",
     "0","1","2","3","4","5","6","7","8","9","_","-"}

\* text.startsWith(lit, i).
StartsWithAt(text, lit, i) ==
    /\ i >= 0
    /\ i + Len(lit) <= Len(text)
    /\ \A k \in 1..Len(lit) : text[i + k] = lit[k]

\* First offset >= i whose character is in stops; Len(text) when there is none.
RECURSIVE FirstIn(_, _, _)
FirstIn(text, stops, i) ==
    IF i >= Len(text) THEN Len(text)
    ELSE IF text[i + 1] \in stops THEN i
    ELSE FirstIn(text, stops, i + 1)

\* First offset >= i whose character is not in set; Len(text) when there is none.
RECURSIVE FirstNotIn(_, _, _)
FirstNotIn(text, set, i) ==
    IF i >= Len(text) THEN Len(text)
    ELSE IF text[i + 1] \notin set THEN i
    ELSE FirstNotIn(text, set, i + 1)

\* text.indexOf(lit, i) for a non-empty literal; -1 when there is none.
RECURSIVE IndexOf(_, _, _)
IndexOf(text, lit, i) ==
    IF i + Len(lit) > Len(text) THEN -1
    ELSE IF StartsWithAt(text, lit, i) THEN i
    ELSE IndexOf(text, lit, i + 1)

\* Last offset < j whose character is not blank, plus one (0 when all blank).
RECURSIVE TrimEnd(_, _)
TrimEnd(text, j) ==
    IF j = 0 THEN 0
    ELSE IF text[j] \in WhiteSpace THEN TrimEnd(text, j - 1)
    ELSE j

\* text.trim().
Trim(text) ==
    LET a == FirstNotIn(text, WhiteSpace, 0)
        b == TrimEnd(text, Len(text))
    IN  IF a >= b THEN <<>> ELSE Slice(text, a, b)

\* Number of occurrences of character c in text: (text.match(/c/g) || []).length.
RECURSIVE CountChar(_, _, _)
CountChar(text, c, i) ==
    IF i >= Len(text) THEN 0
    ELSE (IF text[i + 1] = c THEN 1 ELSE 0) + CountChar(text, c, i + 1)

\* text.split(c): the fields between the occurrences of character c.
RECURSIVE Split(_, _, _)
Split(text, c, i) ==
    LET j == FirstIn(text, {c}, i)
    IN  IF j >= Len(text) THEN <<Slice(text, i, Len(text))>>
        ELSE <<Slice(text, i, j)>> \o Split(text, c, j + 1)

\* Concatenation of a sequence of sequences.
RECURSIVE Flatten(_)
Flatten(ss) == IF ss = <<>> THEN <<>> ELSE Head(ss) \o Flatten(Tail(ss))

(***************************************************************************)
(* The document as the editor exposes it: lines numbered from 1, each with *)
(* its first offset, its end offset (before the newline) and its text.     *)
(***************************************************************************)

RECURSIVE LinesFrom(_, _)
LinesFrom(text, from) ==
    LET to == FirstIn(text, {"\n"}, from)
    IN  <<[from |-> from, to |-> to, text |-> Slice(text, from, to)]>>
        \o (IF to < Len(text) THEN LinesFrom(text, to + 1) ELSE <<>>)

\* doc.line(n) is DocLines(doc)[n]; doc.lines is Len(DocLines(doc)).
DocLines(text) == LinesFrom(text, 0)

\* doc.lineAt(pos).number, given the lines of the document.
LineAt(lines, pos) ==
    CHOOSE n \in 1..Len(lines) : lines[n].from <= pos /\ pos <= lines[n].to

(***************************************************************************)
(* The regular expressions of buildDecorations, each as the list of the    *)
(* matches a `while ((m = re.exec(text)))` loop with the g flag visits:    *)
(* leftmost match from lastIndex, then lastIndex = end of the match.       *)
(* index/end delimit m[0]; the other fields are the capture groups.        *)
(***************************************************************************)

\* /`([^`\n]+)`/g
RECURSIVE codeRegexFrom(_, _)
codeRegexFrom(text, i) ==
    IF i >= Len(text) THEN <<>>
    ELSE IF text[i + 1] = Tick
    THEN LET j == FirstIn(text, {Tick, "\n"}, i + 1)
         IN  IF j > i + 1 /\ CharAt(text, j) = Tick
             THEN <<[index |-> i, end |-> j + 1]>> \o codeRegexFrom(text, j + 1)
             ELSE codeRegexFrom(text, i + 1)
    ELSE codeRegexFrom(text, i + 1)

codeRegex(text) == codeRegexFrom(text, 0)

\* /\[([^\]\n]+)\]\(([^)\n]+)\)/g ; linkText = m[1], urlText = m[2] (lengths).
RECURSIVE linkRegexFrom(_, _)
linkRegexFrom(text, i) ==
    IF i >= Len(text) THEN <<>>
    ELSE IF text[i + 1] = "["
    THEN LET j == FirstIn(text, {"]", "\n"}, i + 1)
             k == FirstIn(text, {")", "\n"}, j + 2)
         IN  IF /\ j > i + 1
                /\ CharAt(text, j) = "]"
                /\ CharAt(text, j + 1) = "("
                /\ k > j + 2
                /\ CharAt(text, k) = ")"
             THEN <<[index |-> i, end |-> k + 1,
                     linkText |-> j - (i + 1), urlText |-> k - (j + 2)]>>
                  \o linkRegexFrom(text, k + 1)
             ELSE linkRegexFrom(text, i + 1)
    ELSE linkRegexFrom(text, i + 1)

linkRegex(text) == linkRegexFrom(text, 0)

\* The literal prefix of the block-reference token.
BlockOpen == <<"[", "[", "b", "l", "o", "c", "k", ":">>

\* /\[\[block:([a-zA-Z0-9_-]+)\]\]/g ; id = m[1].
RECURSIVE blockReFrom(_, _)
blockReFrom(text, i) ==
    IF i >= Len(text) THEN <<>>
    ELSE IF text[i + 1] = "[" /\ StartsWithAt(text, BlockOpen, i)
    THEN LET a == i + Len(BlockOpen)
             j == FirstNotIn(text, IdChars, a)
         IN  IF j > a /\ CharAt(text, j) = "]" /\ CharAt(text, j + 1) = "]"
             THEN <<[index |-> i, end |-> j + 2, id |-> Slice(text, a, j)]>>
                  \o blockReFrom(text, j + 2)
             ELSE blockReFrom(text, i + 1)
    ELSE blockReFrom(text, i + 1)

blockRe(text) == blockReFrom(text, 0)

\* /^(#{1,6})\s+/ : <<>> when the line is no heading, else one match with
\* level = m[1].length and markerLen = m[0].length.
headingRegex(text) ==
    LET n == FirstNotIn(text, {"#"}, 0)
        w == FirstNotIn(text, WhiteSpace, n)
    IN  IF n >= 1 /\ n <= 6 /\ w > n
        THEN <<[level |-> n, markerLen |-> w]>>
        ELSE <<>>

\* /MM([^\nM][\s\S]*?)MM/g for a marker character M: the shape shared by
\* boldRegex (M = *) and strikethroughRegex (M = ~).
RECURSIVE pairRegexFrom(_, _, _)
pairRegexFrom(text, M, i) ==
    IF i >= Len(text) THEN <<>>
    ELSE IF /\ text[i + 1] = M
            /\ CharAt(text, i + 1) = M
            /\ i + 2 < Len(text)
            /\ text[i + 3] \notin {"\n", M}
    THEN LET j == IndexOf(text, <<M, M>>, i + 3)
         IN  IF j >= 0
             THEN <<[index |-> i, end |-> j + 2]>> \o pairRegexFrom(text, M, j + 2)
             ELSE pairRegexFrom(text, M, i + 1)
    ELSE pairRegexFrom(text, M, i + 1)

\* /\*\*([^\n*][\s\S]*?)\*\*/g
boldRegex(text) == pairRegexFrom(text, "*", 0)

\* /~~([^\n~][\s\S]*?)~~/g
strikethroughRegex(text) == pairRegexFrom(text, "~", 0)

\* One attempt of italicRegex with the opening star at offset open.
italicClose(text, open) ==
    LET q == FirstIn(text, {"*", "\n"}, open + 1)
    IN  IF /\ CharAt(text, open) = "*"
           /\ q > open + 1
           /\ CharAt(text, q) = "*"
           /\ CharAt(text, q + 1) # "*"
        THEN q ELSE -1

\* /(^|[^*])\*([^*\n]+?)\*(?!\*)/g ; lead = m[1].length, inner = m[2].length.
\* Without the m flag ^ matches at offset 0 only; the second alternative
\* consumes one character that is not a star.
RECURSIVE italicRegexFrom(_, _)
italicRegexFrom(text, p) ==
    IF p >= Len(text) THEN <<>>
    ELSE LET q1 == IF p = 0 THEN italicClose(text, p) ELSE -1
             q2 == IF text[p + 1] # "*" THEN italicClose(text, p + 1) ELSE -1
         IN  IF q1 >= 0
             THEN <<[index |-> p, lead |-> 0, inner |-> q1 - (p + 1)]>>
                  \o italicRegexFrom(text, q1 + 1)
             ELSE IF q2 >= 0
             THEN <<[index |-> p, lead |-> 1, inner |-> q2 - (p + 2)]>>
                  \o italicRegexFrom(text, q2 + 1)
             ELSE italicRegexFrom(text, p + 1)

italicRegex(text) == italicRegexFrom(text, 0)

\* The three directives alignmentRegex accepts, with their alignmentType.
AlignLeft == <<"[","a","l","i","g","n","-","l","e","f","t","]">>
AlignCenter == <<"[","a","l","i","g","n","-","c","e","n","t","e","r","]">>
AlignRight == <<"[","a","l","i","g","n","-","r","i","g","h","t","]">>

\* /\[align-(left|center|right)\]/g ; alignmentType = m[1].
RECURSIVE alignmentRegexFrom(_, _)
alignmentRegexFrom(text, i) ==
    IF i >= Len(text) THEN <<>>
    ELSE IF text[i + 1] # "[" THEN alignmentRegexFrom(text, i + 1)
    ELSE IF StartsWithAt(text, AlignLeft, i)
    THEN <<[index |-> i, end |-> i + Len(AlignLeft), alignmentType |-> "left"]>>
         \o alignmentRegexFrom(text, i + Len(AlignLeft))
    ELSE IF StartsWithAt(text, AlignCenter, i)
    THEN <<[index |-> i, end |-> i + Len(AlignCenter), alignmentType |-> "center"]>>
         \o alignmentRegexFrom(text, i + Len(AlignCenter))
    ELSE IF StartsWithAt(text, AlignRight, i)
    THEN <<[index |-> i, end |-> i + Len(AlignRight), alignmentType |-> "right"]>>
         \o alignmentRegexFrom(text, i + Len(AlignRight))
    ELSE alignmentRegexFrom(text, i + 1)

alignmentRegex(text) == alignmentRegexFrom(text, 0)

(***************************************************************************)
(* Decorations.  kind is the Decoration constructor (replace, mark, line,  *)
(* widget); a replace without widget hides its span.  src names the branch *)
(* of buildDecorations that pushed the decoration: it is bookkeeping of    *)
(* the model and nothing the editor reads.                                 *)
(***************************************************************************)

\* Decoration.replace({}).range(from, to)
Replace(src, from, to) ==
    [kind |-> "replace", from |-> from, to |-> to, class |-> "", widget |-> "",
     id |-> <<>>, label |-> <<>>, tableMarkdown |-> <<>>, src |-> src]

\* Decoration.mark({ class }).range(from, to)
Mark(src, class, from, to) ==
    [kind |-> "mark", from |-> from, to |-> to, class |-> class, widget |-> "",
     id |-> <<>>, label |-> <<>>, tableMarkdown |-> <<>>, src |-> src]

\* Decoration.line({ class }).range(pos)
LineDeco(src, class, pos) ==
    [kind |-> "line", from |-> pos, to |-> pos, class |-> class, widget |-> "",
     id |-> <<>>, label |-> <<>>, tableMarkdown |-> <<>>, src |-> src]

\* Decoration.replace({ widget: new BlockPillWidget(id, label, onOpen) }).range(from, to)
PillDeco(id, label, from, to) ==
    [kind |-> "replace", from |-> from, to |-> to, class |-> "", widget |-> "BlockPill",
     id |-> id, label |-> label, tableMarkdown |-> <<>>, src |-> "block"]

\* Decoration.widget({ widget: new TableWidget(tableMarkdown), side: -1 }).range(pos)
TableDeco(tableMarkdown, pos) ==
    [kind |-> "widget", from |-> pos, to |-> pos, class |-> "", widget |-> "Table",
     id |-> <<>>, label |-> <<>>, tableMarkdown |-> tableMarkdown, src |-> "table"]

\* The blocks the application has listed: id and title (App.tsx, blocks state).
Blocks ==
    << [id |-> <<"i", "d">>, title |-> <<"I", "d">>],
       [id |-> <<"n", "t">>, title |-> <<>>] >>

\* A variant of the label provider with no fallback to the id.
blockLabelTitleOnly(id) ==
    IF \E k \in 1..Len(Blocks) : Blocks[k].id = id
    THEN Blocks[CHOOSE k \in 1..Len(Blocks) : Blocks[k].id = id].title
    ELSE <<>>

\* App.tsx blockLabel: the title of the listed block, its id when the title is
\* empty, and the id itself when no block is listed under it.
blockLabel(id) ==
    IF \E k \in 1..Len(Blocks) : Blocks[k].id = id
    THEN LET b == Blocks[CHOOSE k \in 1..Len(Blocks) :
                         /\ Blocks[k].id = id
                         /\ \A j \in 1..(k - 1) : Blocks[j].id # id]
         IN  IF b.title # <<>> THEN b.title ELSE b.id
    ELSE id

\* labelFor: opts.blockLabel(id) when the plugin was given a label provider,
\* the id otherwise.
labelFor(id) == IF opts.blockLabel THEN blockLabel(id) ELSE id

\* A variant that also counts a selection touching an endpoint of the span.
intersectsSelectionClosed(s, from, to) == ~(to < s.from \/ from > s.to)

\* intersectsSelection(view, from, to), s the main selection.
intersectsSelection(s, from, to) == ~(to <= s.from \/ from >= s.to)

(***************************************************************************)
(* First pass: fenced code blocks.                                         *)
(***************************************************************************)

Fence == <<Tick, Tick, Tick>>

\* /^```/.exec(textFromPos): without the m flag ^ is the start of the slice,
\* so the only possible match index is 0; -1 stands for null.
fenceOpen(textFromPos) == IF StartsWithAt(textFromPos, Fence, 0) THEN 0 ELSE -1

\* /\n```/.exec(textAfterOpen): index of the first newline followed by a fence.
fenceClose(textAfterOpen) == IndexOf(textAfterOpen, <<"\n">> \o Fence, 0)

\* The while loop over searchPos.
RECURSIVE codeBlockScan(_, _, _)
codeBlockScan(text, lines, searchPos) ==
    IF ~(searchPos < Len(text)) THEN <<>>
    ELSE LET match == fenceOpen(Slice(text, searchPos, Len(text)))
             openStart == searchPos + match
             openPos == openStart + 3
             closeMatch == fenceClose(Slice(text, openPos, Len(text)))
             closeStart == openPos + closeMatch
             closeEnd == closeStart + 4
         IN  IF match < 0 THEN <<>>
             ELSE IF closeMatch < 0 THEN <<>>
             ELSE <<[start |-> openStart, end |-> closeEnd,
                     startLine |-> LineAt(lines, openStart),
                     endLine |-> LineAt(lines, closeEnd)]>>
                  \o codeBlockScan(text, lines, closeEnd)

codeBlockRanges(text, lines) == codeBlockScan(text, lines, 0)

(***************************************************************************)
(* Second pass: table blocks.                                              *)
(***************************************************************************)

\* A variant of the row test that only counts the pipes.
isTableRowByPipeCount(text) == CountChar(text, "|", 0) >= 2

\* line.text.trim().startsWith("|") && (line.text.match(/\|/g) || []).length >= 2
isTableRow(text) ==
    /\ StartsWithAt(Trim(text), <<"|">>, 0)
    /\ CountChar(text, "|", 0) >= 2

\* The inner while loop: the last line of the run of table rows from lineNo.
RECURSIVE tableEnd(_, _)
tableEnd(lines, tableEndLine) ==
    IF tableEndLine < Len(lines) /\ isTableRow(lines[tableEndLine + 1].text)
    THEN tableEnd(lines, tableEndLine + 1)
    ELSE tableEndLine

\* The for loop over lineNo.
RECURSIVE tableScan(_, _)
tableScan(lines, lineNo) ==
    IF lineNo > Len(lines) THEN <<>>
    ELSE IF isTableRow(lines[lineNo].text)
    THEN LET tableEndLine == tableEnd(lines, lineNo)
         IN  <<[startLine |-> lineNo, endLine |-> tableEndLine,
                startPos |-> lines[lineNo].from,
                endPos |-> lines[tableEndLine].to]>>
             \o tableScan(lines, tableEndLine + 1)
    ELSE tableScan(lines, lineNo + 1)

tableBlockRanges(lines) == tableScan(lines, 1)

(***************************************************************************)
(* Per-line detectors of buildDecorations, in the order of the source.     *)
(* Each gives the decorations its loop pushes for one line.                *)
(***************************************************************************)

\* Inline code: one iteration of the codeRegex loop.
codeDecos(s, line, cm) ==
    LET absFullStart == line.from + cm.index
        absFullEnd == line.from + cm.end
        absInnerStart == absFullStart + 1
        absInnerEnd == absFullEnd - 1
    IN  (IF ~intersectsSelection(s, absFullStart, absFullEnd)
         THEN << Replace("code", absFullStart, absFullStart + 1),
                 Replace("code", absFullEnd - 1, absFullEnd) >>
         ELSE <<>>)
        \o << Mark("code", "cm-live-code", absInnerStart, absInnerEnd) >>

\* A variant of the link branch that leaves the URL visible.
linkDecosUrlShown(s, line, lm) ==
    LET absFullStart == line.from + lm.index
        absFullEnd == line.from + lm.end
        absTextStart == absFullStart + 1
        absTextEnd == absTextStart + lm.linkText
    IN  IF intersectsSelection(s, absFullStart, absFullEnd)
        THEN << Mark("link", "cm-live-link", absTextStart, absTextEnd) >>
        ELSE << Replace("link", absFullStart, absFullStart + 1),
                Replace("link", absTextEnd, absTextEnd + 1),
                Replace("link", absTextEnd + 1, absTextEnd + 2),
                Replace("link", absFullEnd - 1, absFullEnd),
                Mark("link", "cm-live-link", absTextStart, absTextEnd) >>

\* Links: one iteration of the linkRegex loop.
linkDecos(s, line, lm) ==
    LET fullStart == lm.index
        fullEnd == lm.end
        openBracket == fullStart
        textStart == fullStart + 1
        textEnd == textStart + lm.linkText
        closeBracket == textEnd
        openParen == closeBracket + 1
        urlStart == openParen + 1
        urlEnd == urlStart + lm.urlText
        closeParen == urlEnd
        absFullStart == line.from + fullStart
        absFullEnd == line.from + fullEnd
        absTextStart == line.from + textStart
        absTextEnd == line.from + textEnd
        absOpenBracket == line.from + openBracket
        absCloseBracket == line.from + closeBracket
        absOpenParen == line.from + openParen
        absUrlStart == line.from + urlStart
        absUrlEnd == line.from + urlEnd
        absCloseParen == line.from + closeParen
    IN  IF intersectsSelection(s, absFullStart, absFullEnd)
        THEN << Mark("link", "cm-live-link", absTextStart, absTextEnd) >>
        ELSE << Replace("link", absOpenBracket, absOpenBracket + 1),
                Replace("link", absCloseBracket, absCloseBracket + 1),
                Replace("link", absOpenParen, absOpenParen + 1),
                Replace("link", absUrlStart, absUrlEnd),
                Replace("link", absCloseParen, absCloseParen + 1),
                Mark("link", "cm-live-link", absTextStart, absTextEnd) >>

\* Block pills: one iteration of the blockRe loop.
blockDecos(s, line, bm) ==
    LET id == bm.id
        start == line.from + bm.index
        end == line.from + bm.end
    IN  IF intersectsSelection(s, start, end) THEN <<>>
        ELSE << PillDeco(id, labelFor(id), start, end) >>

\* `cm-live-h cm-live-h${level}`
headingClass(level) ==
    << "cm-live-h cm-live-h1", "cm-live-h cm-live-h2", "cm-live-h cm-live-h3",
       "cm-live-h cm-live-h4", "cm-live-h cm-live-h5", "cm-live-h cm-live-h6" >>[level]

\* `cm-live-align-${alignmentType}`
alignmentClass(alignmentType) ==
    CASE alignmentType = "left" -> "cm-live-align-left"
      [] alignmentType = "center" -> "cm-live-align-center"
      [] alignmentType = "right" -> "cm-live-align-right"

\* A variant of the heading branch that tests the selection against the
\* whole line.
headingDecosWholeLine(s, line, h) ==
    (IF ~intersectsSelection(s, line.from, line.to)
     THEN << Replace("heading", line.from, line.from + h.markerLen) >>
     ELSE <<>>)
    \o << LineDeco("heading", headingClass(h.level), line.from) >>

\* Headings: the body of `if (h)`.
headingDecos(s, line, h) ==
    LET level == h.level
        markerLen == h.markerLen
        start == line.from
        end == line.from + markerLen
    IN  (IF ~intersectsSelection(s, start, end)
         THEN << Replace("heading", start, end) >>
         ELSE <<>>)
        \o << LineDeco("heading", headingClass(level), line.from) >>

\* A variant of the bold branch whose closing replace starts at the end of
\* the match.
boldDecosPastEnd(s, line, m) ==
    LET absFullStart == line.from + m.index
        absFullEnd == line.from + m.end
    IN  (IF ~intersectsSelection(s, absFullStart, absFullEnd)
         THEN << Replace("bold", absFullStart, absFullStart + 2),
                 Replace("bold", absFullEnd, absFullEnd + 2) >>
         ELSE <<>>)
        \o << Mark("bold", "cm-live-bold", absFullStart + 2, absFullEnd - 2) >>

\* A variant of the bold branch that styles the interior only while the
\* markers are hidden.
boldDecosPlainWhenRevealed(s, line, m) ==
    LET absFullStart == line.from + m.index
        absFullEnd == line.from + m.end
    IN  IF ~intersectsSelection(s, absFullStart, absFullEnd)
        THEN << Replace("bold", absFullStart, absFullStart + 2),
                Replace("bold", absFullEnd - 2, absFullEnd),
                Mark("bold", "cm-live-bold", absFullStart + 2, absFullEnd - 2) >>
        ELSE <<>>

\* Bold: one iteration of the boldRegex loop.
boldDecos(s, line, m) ==
    LET absFullStart == line.from + m.index
        absFullEnd == line.from + m.end
        absInnerStart == absFullStart + 2
        absInnerEnd == absFullEnd - 2
    IN  (IF ~intersectsSelection(s, absFullStart, absFullEnd)
         THEN << Replace("bold", absFullStart, absFullStart + 2),
                 Replace("bold", absFullEnd - 2, absFullEnd) >>
         ELSE <<>>)
        \o << Mark("bold", "cm-live-bold", absInnerStart, absInnerEnd) >>

\* boldRanges of a line: the full span of every bold match.
boldRanges(line) ==
    LET ms == boldRegex(line.text)
    IN  [k \in 1..Len(ms) |->
            [from |-> line.from + ms[k].index, to |-> line.from + ms[k].end]]

\* A variant of the italic branch without the bold-overlap test.
italicDecosInsideBold(s, line, m) ==
    LET absOpen == line.from + m.index + m.lead
        absClose == absOpen + 1 + m.inner
    IN  (IF ~intersectsSelection(s, absOpen, absClose + 1)
         THEN << Replace("italic", absOpen, absOpen + 1),
                 Replace("italic", absClose, absClose + 1) >>
         ELSE <<>>)
        \o << Mark("italic", "cm-live-italic", absOpen + 1, absClose) >>

\* Italic: one iteration of the italicRegex loop.
italicDecos(s, line, m) ==
    LET openingStarIndex == m.index + m.lead
        closingStarIndex == openingStarIndex + 1 + m.inner
        absOpen == line.from + openingStarIndex
        absInnerFrom == absOpen + 1
        absInnerTo == absInnerFrom + m.inner
        absClose == line.from + closingStarIndex
        bolds == boldRanges(line)
        overlapsBold == \E k \in 1..Len(bolds) :
                            ~(absClose + 1 <= bolds[k].from \/ absOpen >= bolds[k].to)
        fullFrom == absOpen
        fullTo == absClose + 1
    IN  IF overlapsBold THEN <<>>
        ELSE (IF ~intersectsSelection(s, fullFrom, fullTo)
              THEN << Replace("italic", absOpen, absOpen + 1),
                      Replace("italic", absClose, absClose + 1) >>
              ELSE <<>>)
             \o << Mark("italic", "cm-live-italic", absInnerFrom, absInnerTo) >>

\* A variant of the strikethrough branch that hides the markers whatever the
\* selection is.
strikethroughDecosAlwaysHidden(s, line, sm) ==
    LET absFullStart == line.from + sm.index
        absFullEnd == line.from + sm.end
    IN  << Replace("strikethrough", absFullStart, absFullStart + 2),
           Replace("strikethrough", absFullEnd - 2, absFullEnd),
           Mark("strikethrough", "cm-live-strikethrough",
                absFullStart + 2, absFullEnd - 2) >>

\* Strikethrough: one iteration of the strikethroughRegex loop.
strikethroughDecos(s, line, sm) ==
    LET absFullStart == line.from + sm.index
        absFullEnd == line.from + sm.end
        absInnerStart == absFullStart + 2
        absInnerEnd == absFullEnd - 2
    IN  (IF ~intersectsSelection(s, absFullStart, absFullEnd)
         THEN << Replace("strikethrough", absFullStart, absFullStart + 2),
                 Replace("strikethrough", absFullEnd - 2, absFullEnd) >>
         ELSE <<>>)
        \o << Mark("strikethrough", "cm-live-strikethrough", absInnerStart, absInnerEnd) >>

\* A variant of the alignment branch that reveals a directive the selection
\* intersects.
alignmentDecosRevealed(s, line, am) ==
    (IF ~intersectsSelection(s, line.from + am.index, line.from + am.end)
     THEN << Replace("alignment", line.from + am.index, line.from + am.end) >>
     ELSE <<>>)
    \o << LineDeco("alignment", alignmentClass(am.alignmentType), line.from) >>

\* Text alignment: one iteration of the alignmentRegex loop.
alignmentDecos(s, line, am) ==
    LET start == line.from + am.index
        end == line.from + am.end
    IN  << Replace("alignment", start, end),
           LineDeco("alignment", alignmentClass(am.alignmentType), line.from) >>

\* A variant that leaves out the first line after the opening fence.
inCodeBlockAfterFirstLine(ranges, lineNo) ==
    \E k \in 1..Len(ranges) :
        lineNo > ranges[k].startLine + 1 /\ lineNo < ranges[k].endLine

\* Whether lineNo is strictly inside a recorded fenced code block.
inCodeBlock(ranges, lineNo) ==
    \E k \in 1..Len(ranges) :
        lineNo > ranges[k].startLine /\ lineNo < ranges[k].endLine

\* The code-block line style of one line.
codeBlockDecos(ranges, lineNo, line) ==
    IF inCodeBlock(ranges, lineNo) /\ ~StartsWithAt(line.text, Fence, 0)
    THEN << LineDeco("codeblock", "cm-live-code-block", line.from) >>
    ELSE <<>>

\* Everything the loop body pushes for a line that does not start a table.
inlineDecos(s, ranges, lineNo, line) ==
    LET text == line.text
        cms == codeRegex(text)
        lms == linkRegex(text)
        bms == blockRe(text)
        h == headingRegex(text)
        ms == boldRegex(text)
        ims == italicRegex(text)
        sms == strikethroughRegex(text)
        ams == alignmentRegex(text)
    IN  codeBlockDecos(ranges, lineNo, line)
        \o Flatten([k \in 1..Len(cms) |-> codeDecos(s, line, cms[k])])
        \o Flatten([k \in 1..Len(lms) |-> linkDecos(s, line, lms[k])])
        \o Flatten([k \in 1..Len(bms) |-> blockDecos(s, line, bms[k])])
        \o Flatten([k \in 1..Len(h) |-> headingDecos(s, line, h[k])])
        \o Flatten([k \in 1..Len(ms) |-> boldDecos(s, line, ms[k])])
        \o Flatten([k \in 1..Len(ims) |-> italicDecos(s, line, ims[k])])
        \o Flatten([k \in 1..Len(sms) |-> strikethroughDecos(s, line, sms[k])])
        \o Flatten([k \in 1..Len(ams) |-> alignmentDecos(s, line, ams[k])])

\* tableLines.join('\n') for the lines from..to of the document.
RECURSIVE joinLines(_, _, _)
joinLines(lines, from, to) ==
    IF from > to THEN <<>>
    ELSE IF from = to THEN lines[from].text
    ELSE lines[from].text \o <<"\n">> \o joinLines(lines, from + 1, to)

\* The table branch: the widget at the start of the block, then one replace
\* per line of the block.
tableDecos(lines, tableBlock) ==
    << TableDeco(joinLines(lines, tableBlock.startLine, tableBlock.endLine),
                 tableBlock.startPos) >>
    \o [k \in 1..(tableBlock.endLine - tableBlock.startLine + 1) |->
           Replace("table", lines[tableBlock.startLine + k - 1].from,
                            lines[tableBlock.startLine + k - 1].to)]

\* A variant of the table lookup that finds a block from any of its lines.
findTableByAnyLine(tbls, lineNo) ==
    IF \E k \in 1..Len(tbls) : tbls[k].startLine <= lineNo /\ lineNo <= tbls[k].endLine
    THEN CHOOSE k \in 1..Len(tbls) :
             tbls[k].startLine <= lineNo /\ lineNo <= tbls[k].endLine
    ELSE 0

\* tableBlockRanges.find(t => t.startLine === lineNo): its index, 0 for none.
findTable(tbls, lineNo) ==
    IF \E k \in 1..Len(tbls) : tbls[k].startLine = lineNo
    THEN CHOOSE k \in 1..Len(tbls) :
             /\ tbls[k].startLine = lineNo
             /\ \A j \in 1..(k - 1) : tbls[j].startLine # lineNo
    ELSE 0

\* The inner for loop over lineNo, up to toLine.
RECURSIVE lineLoop(_, _, _, _, _, _)
lineLoop(s, lines, ranges, tbls, lineNo, toLine) ==
    IF lineNo > toLine THEN <<>>
    ELSE LET t == findTable(tbls, lineNo)
         IN  IF t # 0
             THEN tableDecos(lines, tbls[t])
                  \o lineLoop(s, lines, ranges, tbls, tbls[t].endLine + 1, toLine)
             ELSE inlineDecos(s, ranges, lineNo, lines[lineNo])
                  \o lineLoop(s, lines, ranges, tbls, lineNo + 1, toLine)

\* The outer for loop over view.visibleRanges: decos in the order pushed.
RECURSIVE rangeLoop(_, _, _, _, _, _)
rangeLoop(s, lines, ranges, tbls, vrs, k) ==
    IF k > Len(vrs) THEN <<>>
    ELSE lineLoop(s, lines, ranges, tbls,
                  LineAt(lines, vrs[k].from), LineAt(lines, vrs[k].to))
         \o rangeLoop(s, lines, ranges, tbls, vrs, k + 1)

\* A variant in which every decoration has the same startSide, so that ties
\* on the start offset are left in emission order.
startSideEqual(d) == 0

\* startSide of a decoration, as an order: line < widget(side -1) < replace < mark.
startSide(d) ==
    CASE d.kind = "line" -> 0
      [] d.kind = "widget" -> 1
      [] d.kind = "replace" -> 2
      [] d.kind = "mark" -> 3

\* Insertion of d into a sorted list, after every element not greater than it.
RECURSIVE insertSorted(_, _)
insertSorted(sorted, d) ==
    IF sorted = <<>> THEN <<d>>
    ELSE LET last == sorted[Len(sorted)]
         IN  IF \/ last.from < d.from
                \/ (last.from = d.from /\ startSide(last) <= startSide(d))
             THEN Append(sorted, d)
             ELSE Append(insertSorted(SubSeq(sorted, 1, Len(sorted) - 1), d), last)

\* Decoration.set(decos, true): stable sort by from, then startSide.
RECURSIVE sortFrom(_, _, _)
sortFrom(decos, k, acc) ==
    IF k > Len(decos) THEN acc
    ELSE sortFrom(decos, k + 1, insertSorted(acc, decos[k]))

DecorationSet(decos) == sortFrom(decos, 1, <<>>)

\* The decos array of buildDecorations before Decoration.set.
pushedDecos(text, vrs, s) ==
    LET lines == DocLines(text)
    IN  rangeLoop(s, lines, codeBlockRanges(text, lines), tableBlockRanges(lines), vrs, 1)

\* buildDecorations(view, opts) for a view with document text, visible ranges
\* vrs and main selection s.
buildDecorations(text, vrs, s) == DecorationSet(pushedDecos(text, vrs, s))

(***************************************************************************)
(* TableWidget: what toDOM builds from the widget's tableMarkdown.         *)
(* The result is [table |-> whether a table element is appended,           *)
(* rows |-> the tr elements appended, each the list of its cells           *)
(* [tag, textContent, className]]; className "" is no class.               *)
(***************************************************************************)

\* A variant of parseAlignment that reads a leading colon alone as centred.
parseAlignmentLeftIsCenter(separatorCell) ==
    LET trimmed == Trim(separatorCell)
        hasLeft == StartsWithAt(trimmed, <<":">>, 0)
        hasRight == trimmed # <<>> /\ trimmed[Len(trimmed)] = ":"
    IN  IF hasLeft THEN "center"
        ELSE IF hasRight THEN "right"
        ELSE "left"

\* parseAlignment(separatorCell)
parseAlignment(separatorCell) ==
    LET trimmed == Trim(separatorCell)
        hasLeft == StartsWithAt(trimmed, <<":">>, 0)
        hasRight == trimmed # <<>> /\ trimmed[Len(trimmed)] = ":"
    IN  IF hasLeft /\ hasRight THEN "center"
        ELSE IF hasRight THEN "right"
        ELSE IF hasLeft THEN "left"
        ELSE "left"

\* /^:?-+:?$/.test(cell)
isSeparatorCell(cell) ==
    LET a == IF CharAt(cell, 0) = ":" THEN 1 ELSE 0
        b == FirstNotIn(cell, {"-"}, a)
        c == IF CharAt(cell, b) = ":" THEN b + 1 ELSE b
    IN  b > a /\ c = Len(cell)

\* xs.filter(x => x.length > 0)
RECURSIVE nonEmpty(_)
nonEmpty(xs) ==
    IF xs = <<>> THEN <<>>
    ELSE (IF Len(Head(xs)) > 0 THEN <<Head(xs)>> ELSE <<>>) \o nonEmpty(Tail(xs))

\* line.split('|').map(cell => cell.trim()).filter(cell => cell.length > 0)
rowCells(line) ==
    LET fields == Split(line, "|", 0)
    IN  nonEmpty([k \in 1..Len(fields) |-> Trim(fields[k])])

\* The rows of the first loop: the cell lists of the lines that have cells.
tableRows(tableMarkdown) ==
    LET lines == Split(Trim(tableMarkdown), "\n", 0)
    IN  nonEmpty([k \in 1..Len(lines) |-> rowCells(lines[k])])

\* `align-${alignments[j]}`
cellClass(alignment) ==
    CASE alignment = "left" -> "align-left"
      [] alignment = "center" -> "align-center"
      [] alignment = "right" -> "align-right"

\* The inner loop over j: the cells of rendered row i (0-based as in the source).
renderRow(row, i, alignments) ==
    [j \in 1..Len(row) |->
        [tag |-> IF i = 0 THEN "th" ELSE "td",
         textContent |-> row[j],
         className |-> IF j <= Len(alignments) THEN cellClass(alignments[j]) ELSE ""]]

\* The second loop, from 0-based row index i with the alignments parsed so far.
RECURSIVE renderRows(_, _, _)
renderRows(rows, i, alignments) ==
    IF i >= Len(rows) THEN <<>>
    ELSE LET row == rows[i + 1]
             isSeparator == \A k \in 1..Len(row) : isSeparatorCell(row[k])
         IN  IF isSeparator
             THEN renderRows(rows, i + 1, [k \in 1..Len(row) |-> parseAlignment(row[k])])
             ELSE <<renderRow(row, i, alignments)>> \o renderRows(rows, i + 1, alignments)

\* TableWidget.toDOM()
toDOM(tableMarkdown) ==
    LET rows == tableRows(tableMarkdown)
    IN  IF Len(rows) = 0 THEN [table |-> FALSE, rows |-> <<>>]
        ELSE [table |-> TRUE, rows |-> renderRows(rows, 0, <<>>)]

(***************************************************************************)
(* The editor around the plugin.  The documents the editor is given, the   *)
(* selections the user makes and the ranges the host reports as visible.   *)
(***************************************************************************)

\* Longest selection the user makes, in characters.
MaxSelLen == 1

\* Most visible ranges the host reports at once.
MaxRanges == 2

\* Inline code, and a bold span at [10,15).
DocCodeBold ==
    <<"s","e","e"," ",Tick,"a","b","c",Tick,"\n","*","*","x","*","*">>

\* A link.
DocLink ==
    <<"[","g","o","]","(","h","t","t","p",":","/","/","x",")">>

\* An italic pattern inside a bold span.
DocBoldItalic ==
    <<"*","*","a","*","b","*","c","*","*">>

\* Two adjacent block references, one unlisted.
DocBlocks ==
    <<"[","[","b","l","o","c","k",":","i","d","]","]","[","[","b","l","o","c","k",":","n","o","]","]">>

\* Headings of depth 1 and 6, and seven hashes.
DocHeadings ==
    <<"#"," ","A","\n","#","#","#","#","#","#"," ","B","\n","#","#","#","#","#","#","#"," ","C">>

\* Italic and strikethrough spans.
DocItalicStrike ==
    <<"*","a","*"," ","~","~","b","~","~"," ","*","c","*">>

\* The three alignment directives inside a line.
DocAlign ==
    <<"x","[","a","l","i","g","n","-","r","i","g","h","t","]","[","a","l","i","g","n","-","l","e","f","t","]","[","a","l","i","g","n","-","c","e","n","t","e","r","]">>

\* An italic span whose closing star lies in a link's URL.
DocOverlap ==
    <<"*","x","[","t","]","(","u","*","v",")">>

\* Bold inside triple stars.
DocStars ==
    <<"*","*","*","a","*","*","*">>

\* Header, separator and one body row.
DocTable ==
    <<"|"," ","H","1","|","H","2"," ","|","\n","|",":","-","-","|","-","-",":","|","\n","|","a","|","b","|">>

\* A table with inline constructs, between two paragraphs.
DocTableInline ==
    <<"p","\n","|","*","*","a","*","*","|","\n","|",Tick,"b",Tick,"|","c","|","\n","*","d","*">>

\* A row not starting with a pipe, a leading separator, an empty cell.
DocTableOdd ==
    <<"a"," ","|"," ","b"," ","|"," ","c","\n","|","-","|","-","|","\n","|","d","|","|","e","|">>

\* A fenced block at the start of the document.
DocFence ==
    <<Tick,Tick,Tick,"\n",Tick,"a",Tick," ","b","\n",Tick,Tick,Tick,"\n","x">>

\* A fenced block after a paragraph.
DocFenceLate ==
    <<"t","\n",Tick,Tick,Tick,"\n","c","\n",Tick,Tick,Tick>>

\* An unterminated fence.
DocFenceOpen ==
    <<Tick,Tick,Tick,"\n","c","o","d","e">>

\* A table row between the fences of a code block.
DocFenceTable ==
    <<Tick,Tick,Tick,"\n","|","a","|","\n",Tick,Tick,Tick>>

\* Two table blocks with an empty line between them, the first indented.
DocTwoTables ==
    <<" ","|","a","|","\n","\n","|","b","|">>

\* The empty document.
DocEmpty ==
    <<>>

\* The files of the tab strip, in its order, and the documents among them.
Files == <<DocCodeBold, DocLink, DocBoldItalic, DocBlocks, DocHeadings, DocItalicStrike, DocAlign, DocOverlap, DocStars, DocTable, DocTableInline, DocTableOdd, DocFence, DocFenceLate, DocFenceOpen, DocFenceTable, DocTwoTables, DocEmpty>>

\* The files next to the one shown: the tabs the user switches to.
NextFiles(text) ==
    LET k == CHOOSE i \in 1..Len(Files) : Files[i] = text
    IN  {Files[(k % Len(Files)) + 1], Files[((k + Len(Files) - 2) % Len(Files)) + 1]}

SampleDocs == {Files[k] : k \in 1..Len(Files)}

\* EditorSelection.cursor(pos)
Cursor(pos) == [from |-> pos, to |-> pos]

Min(a, b) == IF a <= b THEN a ELSE b

\* The main selections possible in a document: from <= to within the text.
Selections(text) ==
    {s \in [from : 0..Len(text), to : 0..Len(text)] :
        s.from <= s.to /\ s.to - s.from <= MaxSelLen}

\* Offsets at which the host may cut a gap out of the viewport: one character
\* after the start, and one before the end, of a line of three or more.
GapStarts(lines) ==
    {lines[n].from + 1 : n \in {m \in 1..Len(lines) : lines[m].to - lines[m].from >= 3}}
GapEnds(lines) ==
    {lines[n].to - 1 : n \in {m \in 1..Len(lines) : lines[m].to - lines[m].from >= 3}}

\* The lists of at most k disjoint ascending ranges that cover lo..hi but for
\* the gaps cut out of it.
RECURSIVE RangeLists(_, _, _, _)
RangeLists(lines, lo, hi, k) ==
    {<<[from |-> lo, to |-> hi]>>}
    \cup (IF k <= 1 THEN {}
          ELSE UNION {UNION {{<<[from |-> lo, to |-> g1]>> \o rest :
                                 rest \in RangeLists(lines, g2, hi, k - 1)} :
                             g2 \in {g \in GapEnds(lines) : g1 < g /\ g <= hi}} :
                      g1 \in {g \in GapStarts(lines) : lo <= g /\ g < hi}})

\* view.visibleRanges: the viewport is a run of whole lines a..b; the visible
\* ranges are the viewport without its gaps.
VisibleRanges(text) ==
    LET lines == DocLines(text)
    IN  UNION {RangeLists(lines, lines[a].from, lines[b].to, MaxRanges) :
                  a \in 1..Len(lines), b \in 1..Len(lines)}

\* VisibleRanges of every sample document, tabulated.
VisibleRangesOf == [text \in SampleDocs |-> VisibleRanges(text)]

\* The DOM the host builds from the table widgets of a decoration set.
renderTables(decos) ==
    LET isTable(d) == d.widget = "Table"
        ws == SelectSeq(decos, isTable)
    IN  [k \in 1..Len(ws) |-> toDOM(ws[k].tableMarkdown)]

\* A variant of update that does not rebuild on a selection change.
updateIgnoringSelection(docChanged, viewportChanged, selectionSet, text, vrs, s) ==
    IF docChanged \/ viewportChanged
    THEN buildDecorations(text, vrs, s)
    ELSE decorations

\* A variant of update that rebuilds into the array of the previous build.
updateIntoOldArray(docChanged, viewportChanged, selectionSet, text, vrs, s) ==
    IF docChanged \/ viewportChanged \/ selectionSet
    THEN DecorationSet(decorations \o pushedDecos(text, vrs, s))
    ELSE decorations

\* The plugin's update(update): rebuild on a document, viewport or selection
\* change, keep the stored set otherwise.
update(docChanged, viewportChanged, selectionSet, text, vrs, s) ==
    IF docChanged \/ viewportChanged \/ selectionSet
    THEN buildDecorations(text, vrs, s)
    ELSE decorations

(***************************************************************************)
(* The application (src/teacher-docs-editor/src/app/App.tsx): the document *)
(* tabs.  A handler reads the state of the render it was created in; a     *)
(* state setter with an updater function reads the state at the time it is *)
(* applied.  An asynchronous handler is three steps: the call, which       *)
(* captures what the handler read before its await; the repository's read  *)
(* or write; and the rest of the handler after the await.  Other handlers  *)
(* run between these steps.  Paths and contents are strings.               *)
(***************************************************************************)

\* Highest number of an untitled document.
MaxUntitled == 1

\* Most asynchronous calls in flight at once.
MaxCalls == 2

\* Most tabs the user has open, those being opened counted in.
MaxTabs == 3

\* The decimal digits of a small number.
Digits == <<"1", "2", "3", "4", "5", "6", "7", "8", "9">>

\* `Untitled-${untitledCounter}`
Untitled(n) == "Untitled-" \o Digits[n]

\* path.startsWith("Untitled-")
IsUntitled(path) == \E n \in 1..Len(Digits) : path = Untitled(n)

\* The file the user opens from the sidebar, the template new documents are
\* made from, and the path typed in the save-as dialog
\* (`${newFileType}/${cleanName}`): the path of the file in the sidebar, which
\* is that of an open tab or not.
OpenablePaths == {"docs/a.md"}
TemplatePaths == {"templates/t.md"}
SaveAsPaths == {"docs/a.md"}

\* What the user types into the editor.
TypedContents == {"x"}

\* The block reference insertBlock appends.
BlockToken(id) == "\n\n[[block:" \o id \o "]]\n"

\* The value of a property that an object does not have.
Undefined == "undefined"

\* { ...f, [k]: v } and the copy of f without k.
Put(f, k, v) == [x \in (DOMAIN f) \cup {k} |-> IF x = k THEN v ELSE f[x]]
Delete(f, k) == [x \in (DOMAIN f) \ {k} |-> f[x]]

\* arr[i] ?? (next alternative): the 0-based element, Undefined outside.
At(arr, i) == IF i >= 0 /\ i < Len(arr) THEN arr[i + 1] ELSE Undefined

\* arr.indexOf(x): 0-based, -1 when absent.
indexOf(arr, x) ==
    IF \E i \in 1..Len(arr) : arr[i] = x
    THEN (CHOOSE i \in 1..Len(arr) : arr[i] = x /\ \A j \in 1..(i - 1) : arr[j] # x) - 1
    ELSE -1

\* arr.includes(x)
includes(arr, x) == \E i \in 1..Len(arr) : arr[i] = x

\* arr.filter(p => p !== path)
without(arr, path) ==
    LET keep(p) == p # path
    IN  SelectSeq(arr, keep)

\* The sequence without its k-th element.
RemoveAt(seq, k) == SubSeq(seq, 1, k - 1) \o SubSeq(seq, k + 1, Len(seq))

\* The calls in flight that end by adding a tab.
Opening ==
    Cardinality({k \in 1..Len(calls) : calls[k].op \in {"openTab", "createFromTemplate"}})

\* There is room for one more tab, and a number for one more untitled document.
RoomForTab == Len(openOrder) + Opening < MaxTabs
RoomForUntitled == RoomForTab /\ untitledCounter <= MaxUntitled

\* A TabDoc.
TabDoc(path, content, dirty) == [path |-> path, content |-> content, dirty |-> dirty]

\* An asynchronous call in flight: the handler, what it captured at the call,
\* and whether the repository has done its part (done) with the content read.
Call(op, path, newPath, content, counter) ==
    [op |-> op, path |-> path, newPath |-> newPath, content |-> content,
     counter |-> counter, done |-> FALSE]

\* md.render(markdown): the HTML that markdown-it makes of the markdown,
\* which the model does not take apart.
render(markdown) == [html |-> "md.render", of |-> markdown]

\* useState initial values, with a repository of one document and one
\* template, both empty.
AppStart ==
    /\ openOrder = <<>>
    /\ tabsByPath = <<>>
    /\ activePath = "docs/example.md"
    /\ untitledCounter = 1
    /\ saveAsState = [isOpen |-> FALSE, currentPath |-> Undefined]
    /\ repoFiles = [p \in OpenablePaths \cup TemplatePaths |->
                       ""]
    /\ calls = <<>>
    /\ previewHtml = render(<<>>)

\* The main window takes clicks and keys: no modal dialog covers it.
MainWindow == ~saveAsState.isOpen

\* openTab(path, { activate: true }) up to its await.
openTab(path) ==
    /\ UNCHANGED <<editorVars, previewHtml>>
    /\ MainWindow
    /\ IF path \in DOMAIN tabsByPath
       THEN /\ activePath' = path
            /\ UNCHANGED calls
       ELSE /\ Len(calls) < MaxCalls
            /\ RoomForTab
            /\ calls' = Append(calls, Call("openTab", path, Undefined, Undefined, 0))
            /\ UNCHANGED activePath
    /\ UNCHANGED <<openOrder, tabsByPath, untitledCounter, saveAsState, repoFiles>>

\* openTab after its await, with the content c that loadFile returned.
openTabResume(call) ==
    /\ tabsByPath' = Put(tabsByPath, call.path, TabDoc(call.path, call.content, FALSE))
    /\ openOrder' = IF includes(openOrder, call.path) THEN openOrder
                    ELSE Append(openOrder, call.path)
    /\ activePath' = call.path
    /\ UNCHANGED <<untitledCounter, saveAsState, repoFiles>>

\* createNewFile()
createNewFile ==
    /\ UNCHANGED <<editorVars, previewHtml>>
    /\ MainWindow
    /\ RoomForUntitled
    /\ LET name == Untitled(untitledCounter)
       IN  /\ untitledCounter' = untitledCounter + 1
           /\ tabsByPath' = Put(tabsByPath, name, TabDoc(name, "", TRUE))
           /\ openOrder' = Append(openOrder, name)
           /\ activePath' = name
    /\ UNCHANGED <<saveAsState, repoFiles, calls>>

\* createFromTemplate(templatePath) up to its await.
createFromTemplate(templatePath) ==
    /\ UNCHANGED <<editorVars, previewHtml>>
    /\ MainWindow
    /\ RoomForUntitled
    /\ Len(calls) < MaxCalls
    /\ calls' = Append(calls, Call("createFromTemplate", templatePath, Undefined,
                                   Undefined, untitledCounter))
    /\ UNCHANGED <<openOrder, tabsByPath, activePath, untitledCounter, saveAsState,
                   repoFiles>>

\* createFromTemplate after its await: the name is made from the counter of
\* the render the handler was created in.
createFromTemplateResume(call) ==
    /\ LET name == Untitled(call.counter)
       IN  /\ untitledCounter' = untitledCounter + 1
           /\ tabsByPath' = Put(tabsByPath, name, TabDoc(name, call.content, TRUE))
           /\ openOrder' = Append(openOrder, name)
           /\ activePath' = name
    /\ UNCHANGED <<saveAsState, repoFiles>>

\* updateActiveContent(newContent)
updateActiveContent(newContent) ==
    /\ UNCHANGED <<editorVars, previewHtml>>
    /\ MainWindow
    /\ activePath \in DOMAIN tabsByPath
    /\ tabsByPath[activePath].content # newContent
    /\ tabsByPath' = [tabsByPath EXCEPT ![activePath].content = newContent,
                                        ![activePath].dirty = TRUE]
    /\ UNCHANGED <<openOrder, activePath, untitledCounter, saveAsState, repoFiles, calls>>

\* insertBlock(id)
insertBlock(id) ==
    /\ UNCHANGED <<editorVars, previewHtml>>
    /\ MainWindow
    /\ activePath \in DOMAIN tabsByPath
    /\ tabsByPath[activePath].content = ""
    /\ tabsByPath' = [tabsByPath EXCEPT
                         ![activePath].content = tabsByPath[activePath].content \o BlockToken(id),
                         ![activePath].dirty = TRUE]
    /\ UNCHANGED <<openOrder, activePath, untitledCounter, saveAsState, repoFiles, calls>>

\* A click on a tab of the strip: setActivePath(p).
switchTab(p) ==
    /\ UNCHANGED <<editorVars, previewHtml>>
    /\ MainWindow
    /\ includes(openOrder, p)
    /\ p # activePath
    /\ activePath' = p
    /\ UNCHANGED <<openOrder, tabsByPath, untitledCounter, saveAsState, repoFiles, calls>>

\* saveActive() up to its await, or to its return for an untitled document.
saveActive ==
    /\ UNCHANGED <<editorVars, previewHtml>>
    /\ MainWindow
    /\ activePath \in DOMAIN tabsByPath
    /\ IF IsUntitled(activePath)
       THEN /\ saveAsState' = [isOpen |-> TRUE, currentPath |-> activePath]
            /\ UNCHANGED calls
       ELSE /\ Len(calls) < MaxCalls
            /\ calls' = Append(calls, Call("saveActive", activePath, Undefined,
                                           tabsByPath[activePath].content, 0))
            /\ UNCHANGED saveAsState
    /\ UNCHANGED <<openOrder, tabsByPath, activePath, untitledCounter, repoFiles>>

\* saveActive after its await: { ...prev[activePath], dirty: false }, which
\* is an object with nothing but the flag when the tab is gone.
saveActiveResume(call) ==
    /\ tabsByPath' =
          Put(tabsByPath, call.path,
              IF call.path \in DOMAIN tabsByPath
              THEN [tabsByPath[call.path] EXCEPT !.dirty = FALSE]
              ELSE TabDoc(Undefined, Undefined, FALSE))
    /\ UNCHANGED <<openOrder, activePath, untitledCounter, saveAsState, repoFiles>>

\* performSaveAs() up to its await; it throws when the tab is gone.
performSaveAs(newPath) ==
    /\ UNCHANGED <<editorVars, previewHtml>>
    /\ saveAsState.isOpen
    /\ saveAsState.currentPath # Undefined
    /\ saveAsState.currentPath \in DOMAIN tabsByPath
    /\ Len(calls) < MaxCalls
    /\ calls' = Append(calls, Call("performSaveAs", saveAsState.currentPath, newPath,
                                   tabsByPath[saveAsState.currentPath].content, 0))
    /\ UNCHANGED <<openOrder, tabsByPath, activePath, untitledCounter, saveAsState,
                   repoFiles>>

\* performSaveAs after its await: the tab is renamed.
performSaveAsResume(call) ==
    /\ tabsByPath' = Put(Delete(tabsByPath, call.path), call.newPath,
                         TabDoc(call.newPath, call.content, FALSE))
    /\ openOrder' = [i \in 1..Len(openOrder) |->
                        IF openOrder[i] = call.path THEN call.newPath ELSE openOrder[i]]
    /\ activePath' = call.newPath
    /\ saveAsState' = [isOpen |-> FALSE, currentPath |-> Undefined]
    /\ UNCHANGED <<untitledCounter, repoFiles>>

\* A click on the backdrop or the close button of the save-as dialog.
dismissSaveAs ==
    /\ UNCHANGED <<editorVars, previewHtml>>
    /\ saveAsState.isOpen
    /\ saveAsState' = [isOpen |-> FALSE, currentPath |-> Undefined]
    /\ UNCHANGED <<openOrder, tabsByPath, activePath, untitledCounter, repoFiles, calls>>

\* The tab activated when the active tab path is closed: the one before it,
\* or the one after it, or the first, or none.
fallback(prev, path) ==
    LET next == without(prev, path)
        idx == indexOf(prev, path)
    IN  IF At(next, idx - 1) # Undefined THEN At(next, idx - 1)
        ELSE IF At(next, idx) # Undefined THEN At(next, idx)
        ELSE IF At(next, 0) # Undefined THEN At(next, 0)
        ELSE ""

\* closeTab(path), from the close button of a tab of the strip; ok is the
\* answer to the confirmation asked for a dirty tab.
closeTab(path, ok) ==
    /\ UNCHANGED <<editorVars, previewHtml>>
    /\ MainWindow
    /\ includes(openOrder, path)
    /\ path \in DOMAIN tabsByPath
    /\ tabsByPath[path].dirty => ok
    /\ tabsByPath' = Delete(tabsByPath, path)
    /\ openOrder' = without(openOrder, path)
    /\ activePath' = IF path = activePath /\ fallback(openOrder, path) # ""
                     THEN fallback(openOrder, path)
                     ELSE activePath
    /\ UNCHANGED <<untitledCounter, saveAsState, repoFiles, calls>>

\* The repository does its part of the k-th call in flight: loadFile reads
\* the file, saveFile writes it.
repoStep(k) ==
    /\ UNCHANGED <<editorVars, previewHtml>>
    /\ ~calls[k].done
    /\ IF calls[k].op \in {"openTab", "createFromTemplate"}
       THEN /\ calls' = [calls EXCEPT ![k].done = TRUE,
                                      ![k].content = repoFiles[calls[k].path]]
            /\ UNCHANGED repoFiles
       ELSE /\ calls' = [calls EXCEPT ![k].done = TRUE]
            /\ repoFiles' = Put(repoFiles,
                                IF calls[k].op = "saveActive" THEN calls[k].path
                                ELSE calls[k].newPath,
                                calls[k].content)
    /\ UNCHANGED <<openOrder, tabsByPath, activePath, untitledCounter, saveAsState>>

\* The k-th call in flight goes on after its await.
resume(k) ==
    /\ UNCHANGED <<editorVars, previewHtml>>
    /\ calls[k].done
    /\ calls' = RemoveAt(calls, k)
    /\ CASE calls[k].op = "openTab" -> openTabResume(calls[k])
         [] calls[k].op = "createFromTemplate" -> createFromTemplateResume(calls[k])
         [] calls[k].op = "saveActive" -> saveActiveResume(calls[k])
         [] calls[k].op = "performSaveAs" -> performSaveAsResume(calls[k])

\* The editor is left alone while the tabs are used.
EditorStart ==
    /\ opts = [blockLabel |-> TRUE]
    /\ doc = DocEmpty
    /\ sel = Cursor(0)
    /\ visibleRanges = <<[from |-> 0, to |-> 0]>>
    /\ decorations = buildDecorations(doc, visibleRanges, sel)
    /\ tableDom = renderTables(decorations)

TabsInit == EditorStart /\ AppStart

TabsNext ==
    \/ \E path \in OpenablePaths : openTab(path)
    \/ createNewFile
    \/ \E templatePath \in TemplatePaths : createFromTemplate(templatePath)
    \/ \E newContent \in TypedContents : updateActiveContent(newContent)
    \/ insertBlock("b")
    \/ \E p \in DOMAIN tabsByPath : switchTab(p)
    \/ saveActive
    \/ \E newPath \in SaveAsPaths : performSaveAs(newPath)
    \/ dismissSaveAs
    \/ \E path \in DOMAIN tabsByPath, ok \in BOOLEAN : closeTab(path, ok)
    \/ \E k \in 1..Len(calls) : repoStep(k)
    \/ \E k \in 1..Len(calls) : resume(k)

TabsSpec == TabsInit /\ [][TabsNext]_vars

(***************************************************************************)
(* The preview (src/teacher-docs-editor/src/repo/blockResolver.ts).  The   *)
(* content previewed is a character sequence, like the document of the     *)
(* editor, and so are the block files.                                     *)
(***************************************************************************)

\* Most pieces the previewed document is typed from.
MaxPieces == 3

\* The string of a character sequence.
RECURSIVE StringOf(_)
StringOf(chars) == IF chars = <<>> THEN "" ELSE Head(chars) \o StringOf(Tail(chars))

\* `> Missing block: ${id}`
MissingBlock(id) == <<">"," ","M","i","s","s","i","n","g"," ","b","l","o","c","k",":"," ">> \o id

\* await api.loadBlock(id) in its try/catch: the file blocks/id.md, or the
\* note that the block is missing when loadFile throws.
loadBlock(id) ==
    LET path == "blocks/" \o StringOf(id) \o ".md"
    IN  IF path \in DOMAIN repoFiles THEN repoFiles[path] ELSE MissingBlock(id)

\* assembled.replace(m[0], blockMd): the first occurrence of the token is
\* replaced, wherever it is.
replaceFirst(assembled, token, blockMd) ==
    LET at == IndexOf(assembled, token, 0)
    IN  IF at < 0 THEN assembled
        ELSE Slice(assembled, 0, at) \o blockMd \o Slice(assembled, at + Len(token), Len(assembled))

\* A variant of the loop that goes through the matches from the first to the
\* last and replaces the first occurrence of the matched text.
RECURSIVE assembleForward(_, _, _, _)
assembleForward(raw, assembled, matches, i) ==
    IF i >= Len(matches) THEN assembled
    ELSE LET m == matches[i + 1]
         IN  assembleForward(raw,
                 replaceFirst(assembled, Slice(raw, m.index, m.end), loadBlock(m.id)),
                 matches, i + 1)

\* A variant of the loop that starts at the first match.
assembleFromFirst(raw, assembled, matches, i) == assembleForward(raw, assembled, matches, 0)

\* The loop over the matches from the last (i = matches.length - 1) to the
\* first, each replaced at its own index.
RECURSIVE assemble(_, _, _, _)
assemble(raw, assembled, matches, i) ==
    IF i < 0 THEN assembled
    ELSE LET m == matches[i + 1]
         IN  assemble(raw,
                 Slice(assembled, 0, m.index) \o loadBlock(m.id)
                     \o Slice(assembled, m.end, Len(assembled)),
                 matches, i - 1)

\* renderAssembledHtml(raw, api)
renderAssembledHtml(raw) ==
    LET matches == blockRe(raw)
    IN  render(assemble(raw, raw, matches, Len(matches) - 1))

\* The pieces the previewed document is typed from: text, references to the
\* blocks x and y and to a block that does not exist, and an unfinished
\* reference.
Pieces ==
    { <<"a">>,
      <<"[","[","b","l","o","c","k",":","x","]","]">>,
      <<"[","[","b","l","o","c","k",":","y","]","]">>,
      <<"[","[","b","l","o","c","k",":","n","o","]","]">>,
      <<"[","[">> }

\* Block x holds a reference to block y and some text; block y is one letter.
BlockFiles ==
    [p \in {"blocks/x.md", "blocks/y.md"} |->
        IF p = "blocks/x.md" THEN <<"[","[","b","l","o","c","k",":","y","]","]","!">> ELSE <<"Y">>]

\* The documents of at most n pieces.
RECURSIVE RawDocs(_)
RawDocs(n) ==
    IF n = 0 THEN {<<>>}
    ELSE RawDocs(n - 1) \cup {d \o piece : d \in RawDocs(n - 1), piece \in Pieces}

\* The documents one piece longer or shorter than content.
Retyped(content) ==
    {d \in RawDocs(MaxPieces) :
        \E piece \in Pieces : d = content \o piece \/ content = d \o piece}

\* refreshPreview()
refreshPreview ==
    /\ previewHtml' = renderAssembledHtml(IF activePath \in DOMAIN tabsByPath
                                          THEN tabsByPath[activePath].content
                                          ELSE <<>>)
    /\ UNCHANGED editorVars
    /\ UNCHANGED <<openOrder, tabsByPath, activePath, untitledCounter, saveAsState,
                   repoFiles, calls>>

\* One tab is open on an empty document, and the repository has the blocks.
PreviewInit ==
    /\ EditorStart
    /\ openOrder = <<"docs/a.md">>
    /\ tabsByPath = Put(<<>>, "docs/a.md", TabDoc("docs/a.md", <<>>, FALSE))
    /\ activePath = "docs/a.md"
    /\ untitledCounter = 1
    /\ saveAsState = [isOpen |-> FALSE, currentPath |-> Undefined]
    /\ repoFiles = BlockFiles
    /\ calls = <<>>
    /\ previewHtml = render(<<>>)

PreviewNext ==
    \/ \E newContent \in Retyped(tabsByPath[activePath].content) :
           updateActiveContent(newContent)
    \/ refreshPreview

PreviewSpec == PreviewInit /\ [][PreviewNext]_vars

\* The options livePreview(opts) is called with: blockLabel is whether a
\* label provider is supplied (CodeMirrorEditor passes its optional prop on).
Options == {[blockLabel |-> TRUE], [blockLabel |-> FALSE]}

\* new EditorView({ state: EditorState.create({ doc: value }) }): the plugin's
\* constructor builds the first decoration set.
Init ==
    /\ opts \in Options
    /\ doc \in SampleDocs
    /\ sel = Cursor(0)
    /\ visibleRanges \in VisibleRangesOf[doc]
    /\ decorations = buildDecorations(doc, visibleRanges, sel)
    /\ tableDom = renderTables(decorations)
    /\ AppStart

\* CodeMirrorEditor's sync effect: the whole document is replaced by value and
\* the cursor kept at its offset, clipped to the new length.
SyncValue(value) ==
    /\ value # doc
    /\ doc' = value
    /\ sel' = Cursor(Min(sel.from, Len(value)))
    /\ visibleRanges' = <<[from |-> 0, to |-> Len(value)]>>
    /\ decorations' = update(TRUE, FALSE, TRUE, doc', visibleRanges', sel')
    /\ tableDom' = renderTables(decorations')
    /\ UNCHANGED opts
    /\ UNCHANGED appVars

\* The user moves either end of the main selection by at most one character.
SelectionSet(s) ==
    /\ s # sel
    /\ s \in Selections(doc)
    /\ sel' = s
    /\ decorations' = update(FALSE, FALSE, TRUE, doc, visibleRanges, sel')
    /\ tableDom' = renderTables(decorations')
    /\ UNCHANGED <<doc, visibleRanges, opts>>
    /\ UNCHANGED appVars

\* One step of scrolling or resizing: one end of one visible range moves, or
\* one gap opens or closes inside the same viewport.
OneStep(old, new) ==
    \/ /\ Len(old) = Len(new)
       /\ Cardinality({k \in 1..Len(old) : old[k] # new[k]}) = 1
       /\ \A k \in 1..Len(old) : old[k].from = new[k].from \/ old[k].to = new[k].to
    \/ /\ Len(old) - Len(new) \in {-1, 1}
       /\ old[1].from = new[1].from
       /\ old[Len(old)].to = new[Len(new)].to

\* Scrolling or resizing: the host reports other visible ranges.
ViewportChange(vrs) ==
    /\ OneStep(visibleRanges, vrs)
    /\ visibleRanges' = vrs
    /\ decorations' = update(FALSE, TRUE, FALSE, doc, visibleRanges', sel)
    /\ tableDom' = renderTables(decorations')
    /\ UNCHANGED <<doc, sel, opts>>
    /\ UNCHANGED appVars

\* A transaction that sets the selection to the value it already has (a click
\* on the cursor): selectionSet is reported and nothing has changed.
SameSelection ==
    /\ decorations' = update(FALSE, FALSE, TRUE, doc, visibleRanges, sel)
    /\ tableDom' = renderTables(decorations')
    /\ UNCHANGED <<doc, sel, visibleRanges, opts>>
    /\ UNCHANGED appVars

\* Any other view update (focus, reconfiguration): no flag is set.
OtherUpdate ==
    /\ decorations' = update(FALSE, FALSE, FALSE, doc, visibleRanges, sel)
    /\ tableDom' = renderTables(decorations')
    /\ UNCHANGED <<doc, sel, visibleRanges, opts>>
    /\ UNCHANGED appVars

Next ==
    \/ \E value \in NextFiles(doc) : SyncValue(value)
    \/ \E df \in {-1, 0, 1}, dt \in {-1, 0, 1} :
           SelectionSet([from |-> sel.from + df, to |-> sel.to + dt])
    \/ \E vrs \in VisibleRangesOf[doc] : ViewportChange(vrs)
    \/ SameSelection
    \/ OtherUpdate

Spec == Init /\ [][Next]_vars

(***************************************************************************)
(* The editor while a table is typed: the document is a table of up to     *)
(* MaxTableRows rows, shown whole, and each step rewrites its last row,    *)
(* adds a row or removes one.                                              *)
(***************************************************************************)

\* Most rows of a typed table.
MaxTableRows == 3

\* The rows the user types: plain rows, separator rows of every alignment,
\* a row with an empty cell in its interior and a row with padded cells.
TypedRows ==
    { <<"|","a","|","b","|">>,
      <<"|",":","-","|","-",":","|">>,
      <<"|",":","-",":","|","-","|">>,
      <<"|","a","|","|","b","|">>,
      <<"|"," ","c"," ","|">>,
      <<"|","-","-","|",":","-","-",":","|">> }

\* The documents one edit of the last row away from text.
RowEdits(text) ==
    LET lines == DocLines(text)
        n == Len(lines)
        before == joinLines(lines, 1, n - 1)
    IN  (IF n < MaxTableRows THEN {text \o <<"\n">> \o r : r \in TypedRows} ELSE {})
        \cup (IF n > 1 THEN {before} \cup {before \o <<"\n">> \o r : r \in TypedRows}
              ELSE TypedRows)

TableInit ==
    /\ opts = [blockLabel |-> TRUE]
    /\ doc \in TypedRows
    /\ sel = Cursor(0)
    /\ visibleRanges = <<[from |-> 0, to |-> Len(doc)]>>
    /\ decorations = buildDecorations(doc, visibleRanges, sel)
    /\ tableDom = renderTables(decorations)
    /\ AppStart

TableNext == \E value \in RowEdits(doc) : SyncValue(value)

TableSpec == TableInit /\ [][TableNext]_vars

(***************************************************************************)
(* Vocabulary of the properties: the lines and constructs of the current   *)
(* view, stated from the document and the visible ranges.                  *)
(***************************************************************************)

CurLines == DocLines(doc)

\* Line n shares an offset with the closed visible range vr.
InRange(n, vr) == vr.from <= CurLines[n].to /\ CurLines[n].from <= vr.to

\* Line n is visible: some visible range touches it.
VisibleLine(n) == \E k \in 1..Len(visibleRanges) : InRange(n, visibleRanges[k])

\* First line of the run of table rows that holds table row n.
RECURSIVE RunStart(_)
RunStart(n) ==
    IF n > 1 /\ isTableRow(CurLines[n - 1].text) THEN RunStart(n - 1) ELSE n

\* Last line of the run of table rows that holds table row n.
RECURSIVE RunEnd(_)
RunEnd(n) ==
    IF n < Len(CurLines) /\ isTableRow(CurLines[n + 1].text) THEN RunEnd(n + 1) ELSE n

\* The inline detectors run on line n: some visible range touches the line,
\* and the line is no row of a table whose first row that range touches too.
InlineLine(n) ==
    \E k \in 1..Len(visibleRanges) :
        /\ InRange(n, visibleRanges[k])
        /\ ~(/\ isTableRow(CurLines[n].text)
             /\ InRange(RunStart(n), visibleRanges[k]))

InlineLines == {n \in 1..Len(CurLines) : InlineLine(n)}

\* Decoration d is in the stored set.
Has(d) == \E i \in 1..Len(decorations) : decorations[i] = d

\* How many times decoration d is in the stored set.
Count(d) == Cardinality({i \in 1..Len(decorations) : decorations[i] = d})

\* The stored decorations that branch src pushed within the span from..to.
Within(src, from, to) ==
    {i \in 1..Len(decorations) :
        /\ decorations[i].src = src
        /\ from <= decorations[i].from
        /\ decorations[i].to <= to}

\* The selection overlaps the span from..to, or is a cursor strictly inside.
Touches(from, to) == sel.from < to /\ from < sel.to

\* The matches of the pattern of a branch in a line text.
MatchesOf(src, text) ==
    CASE src = "code" -> codeRegex(text)
      [] src = "link" -> linkRegex(text)
      [] src = "block" -> blockRe(text)
      [] src = "heading" -> headingRegex(text)
      [] src = "bold" -> boldRegex(text)
      [] src = "italic" -> italicRegex(text)
      [] src = "strikethrough" -> strikethroughRegex(text)
      [] src = "alignment" -> alignmentRegex(text)

\* The detected constructs of a branch: <<line number, match>> pairs.
Found(src) ==
    UNION {{<<n, MatchesOf(src, CurLines[n].text)[k]>> :
               k \in 1..Len(MatchesOf(src, CurLines[n].text))} : n \in InlineLines}

\* Absolute full span of a match with index and end on line n.
SpanFrom(c) == CurLines[c[1]].from + c[2].index
SpanTo(c) == CurLines[c[1]].from + c[2].end

\* A detected construct: the branch that decorates it, its full span and the
\* spans of its syntax markers.
Construct(src, from, to, markers) ==
    [src |-> src, from |-> from, to |-> to, markers |-> markers]

CodeConstructs ==
    {Construct("code", SpanFrom(c), SpanTo(c),
               {<<SpanFrom(c), SpanFrom(c) + 1>>, <<SpanTo(c) - 1, SpanTo(c)>>}) :
        c \in Found("code")}

LinkConstructs ==
    {Construct("link", SpanFrom(c), SpanTo(c),
               {<<SpanFrom(c), SpanFrom(c) + 1>>,
                <<SpanFrom(c) + 1 + c[2].linkText, SpanFrom(c) + 2 + c[2].linkText>>,
                <<SpanFrom(c) + 2 + c[2].linkText, SpanFrom(c) + 3 + c[2].linkText>>,
                <<SpanFrom(c) + 3 + c[2].linkText, SpanTo(c) - 1>>,
                <<SpanTo(c) - 1, SpanTo(c)>>}) :
        c \in Found("link")}

BlockConstructs ==
    {Construct("block", SpanFrom(c), SpanTo(c), {<<SpanFrom(c), SpanTo(c)>>}) :
        c \in Found("block")}

HeadingConstructs ==
    {Construct("heading", CurLines[c[1]].from, CurLines[c[1]].from + c[2].markerLen,
               {<<CurLines[c[1]].from, CurLines[c[1]].from + c[2].markerLen>>}) :
        c \in Found("heading")}

BoldConstructs ==
    {Construct("bold", SpanFrom(c), SpanTo(c),
               {<<SpanFrom(c), SpanFrom(c) + 2>>, <<SpanTo(c) - 2, SpanTo(c)>>}) :
        c \in Found("bold")}

\* The opening and the closing star of an italic match, as absolute offsets.
ItalicOpen(c) == CurLines[c[1]].from + c[2].index + c[2].lead
ItalicClose(c) == ItalicOpen(c) + 1 + c[2].inner

\* An italic match shares an offset with a bold span of its line.
OverlapsBold(c) ==
    \E b \in Found("bold") :
        /\ b[1] = c[1]
        /\ ItalicOpen(c) < SpanTo(b)
        /\ SpanFrom(b) < ItalicClose(c) + 1

ItalicConstructs ==
    {Construct("italic", ItalicOpen(c), ItalicClose(c) + 1,
               {<<ItalicOpen(c), ItalicOpen(c) + 1>>,
                <<ItalicClose(c), ItalicClose(c) + 1>>}) :
        c \in {x \in Found("italic") : ~OverlapsBold(x)}}

StrikeConstructs ==
    {Construct("strikethrough", SpanFrom(c), SpanTo(c),
               {<<SpanFrom(c), SpanFrom(c) + 2>>, <<SpanTo(c) - 2, SpanTo(c)>>}) :
        c \in Found("strikethrough")}

AlignConstructs ==
    {Construct("alignment", SpanFrom(c), SpanTo(c), {<<SpanFrom(c), SpanTo(c)>>}) :
        c \in Found("alignment")}

\* The table blocks whose first row is visible.
VisibleTableStarts ==
    {n \in 1..Len(CurLines) :
        isTableRow(CurLines[n].text) /\ RunStart(n) = n /\ VisibleLine(n)}

TableConstructs ==
    {Construct("table", CurLines[n].from, CurLines[RunEnd(n)].to,
               {<<CurLines[j].from, CurLines[j].to>> : j \in n..RunEnd(n)}) :
        n \in VisibleTableStarts}

\* The constructs whose markers the source hides under the selection test.
SelectionConstructs ==
    CodeConstructs \cup LinkConstructs \cup BlockConstructs \cup HeadingConstructs
    \cup BoldConstructs \cup ItalicConstructs \cup StrikeConstructs

\* Every marker of construct c is replaced by a decoration of its branch.
Hidden(c) ==
    \A sp \in c.markers :
        \E i \in 1..Len(decorations) :
            /\ decorations[i].kind = "replace"
            /\ decorations[i].src = c.src
            /\ decorations[i].from = sp[1]
            /\ decorations[i].to = sp[2]

\* No marker of construct c is replaced by a decoration of its branch.
Revealed(c) ==
    \A i \in 1..Len(decorations) :
        ~(/\ decorations[i].kind = "replace"
          /\ decorations[i].src = c.src
          /\ c.from <= decorations[i].from
          /\ decorations[i].to <= c.to)

\* The selection rule for construct c.
RevealRule(c) == IF Touches(c.from, c.to) THEN Revealed(c) ELSE Hidden(c)

C1_WitnessAlways ==
    \E c \in AlignConstructs \cup TableConstructs : Touches(c.from, c.to) /\ Hidden(c)

\* C2 as stated: intersectsSelection(from, to) is true exactly when the
\* half-open span and the half-open selection share a position.
C2_AsStated ==
    \A from \in 0..Len(doc), to \in 0..Len(doc) :
        from < to =>
            (intersectsSelection(sel, from, to)
                <=> \E p \in from..(to - 1) : sel.from <= p /\ p < sel.to)

\* C2 amended: intersectsSelection(from, to) is true exactly when the span
\* and a non-empty selection share a position, or the selection is a cursor
\* strictly inside the span; it is false when the selection only touches an
\* endpoint of the span.
C2_Intersects ==
    \A from \in 0..Len(doc), to \in 0..Len(doc) :
        from < to =>
            /\ intersectsSelection(sel, from, to)
                 <=> \/ \E p \in from..(to - 1) : sel.from <= p /\ p < sel.to
                     \/ sel.from = sel.to /\ from < sel.from /\ sel.from < to
            /\ (sel.to = from \/ sel.from = to) => ~intersectsSelection(sel, from, to)

\* A non-empty selection ends where a hidden bold span starts, and a cursor
\* sits strictly inside a revealed one.
C2_Witness ==
    \/ \E c \in BoldConstructs : sel.from < sel.to /\ sel.to = c.from /\ Hidden(c)
    \/ \E c \in BoldConstructs :
          sel.from = sel.to /\ c.from < sel.from /\ sel.from < c.to /\ Revealed(c)

\* C3: every decoration of the stored set has 0 <= from <= to <= length of
\* the document.
C3_SpansInDocument ==
    \A i \in 1..Len(decorations) :
        /\ 0 <= decorations[i].from
        /\ decorations[i].from <= decorations[i].to
        /\ decorations[i].to <= Len(doc)

\* A decoration ends at the very end of a non-empty document.
C3_Witness ==
    /\ Len(doc) > 0
    /\ \E i \in 1..Len(decorations) :
          decorations[i].to = Len(doc) /\ decorations[i].from < decorations[i].to

\* The stored set holds a decoration of branch src and of the given kind
\* over exactly from..to.
Covers(src, kind, from, to) ==
    \E i \in 1..Len(decorations) :
        /\ decorations[i].src = src
        /\ decorations[i].kind = kind
        /\ decorations[i].from = from
        /\ decorations[i].to = to

\* The offsets of from..to-1 that a replace decoration of branch src covers.
HiddenChars(src, from, to) ==
    {p \in from..(to - 1) :
        \E i \in 1..Len(decorations) :
            /\ decorations[i].src = src
            /\ decorations[i].kind = "replace"
            /\ decorations[i].from <= p
            /\ p < decorations[i].to}

\* The main selection is a cursor.
IsCursor == sel.from = sel.to

C6_AsStated ==
    \A c \in Found("code") :
        ~Touches(SpanFrom(c), SpanTo(c))
            => /\ Count(Replace("code", SpanFrom(c), SpanFrom(c) + 1)) = 1
               /\ Count(Replace("code", SpanTo(c) - 1, SpanTo(c))) = 1
               /\ Count(Mark("code", "cm-live-code", SpanFrom(c) + 1, SpanTo(c) - 1)) = 1
               /\ Cardinality(Within("code", SpanFrom(c), SpanTo(c))) = 3

\* C7 as stated: for a block-reference token on a visible line, exactly one
\* widget replacing the whole token is emitted when the selection does not
\* intersect the token, and no decoration of the token when it does.
C7_AsStated ==
    \A c \in Found("block") :
        IF Touches(SpanFrom(c), SpanTo(c))
        THEN Within("block", SpanFrom(c), SpanTo(c)) = {}
        ELSE /\ Count(PillDeco(c[2].id, labelFor(c[2].id), SpanFrom(c), SpanTo(c))) = 1
             /\ Cardinality(Within("block", SpanFrom(c), SpanTo(c))) = 1

\* The distinct spans that carry the bold style.
BoldStyled ==
    {<<decorations[i].from, decorations[i].to>> :
        i \in {k \in 1..Len(decorations) :
                  decorations[k].src = "bold" /\ decorations[k].kind = "mark"}}

\* C8: no italic decoration is emitted for a match of the italic pattern that
\* overlaps a bold span of its line; the line **a*b*c** gets no italic
\* decoration and one bold construct over the whole line text.
C8_NoItalicInsideBold ==
    /\ \A x \in Found("italic") :
           OverlapsBold(x) => Within("italic", ItalicOpen(x), ItalicClose(x) + 1) = {}
    /\ doc = DocBoldItalic
         => /\ \A i \in 1..Len(decorations) : decorations[i].src # "italic"
            /\ {<<c.from, c.to>> : c \in BoldConstructs} = {<<0, Len(doc)>>}
            /\ BoldStyled = {<<2, Len(doc) - 2>>}

\* The line **a*b*c**, whose only match of the italic pattern lies inside
\* the bold span.
C8_Witness ==
    /\ doc = DocBoldItalic
    /\ \E x \in Found("italic") : OverlapsBold(x)
    /\ BoldStyled # {}

\* The table widgets of the stored set, in order.
TableWidgets ==
    LET isTable(d) == d.widget = "Table"
    IN  SelectSeq(decorations, isTable)

\* A parsed row is a separator row.
IsSeparatorRow(row) == \A k \in 1..Len(row) : isSeparatorCell(row[k])

\* The parsed rows are a header row, a separator row, then body rows.
HeaderSeparatorBody(rows) ==
    /\ Len(rows) >= 3
    /\ ~IsSeparatorRow(rows[1])
    /\ IsSeparatorRow(rows[2])
    /\ \A k \in 3..Len(rows) : ~IsSeparatorRow(rows[k])

\* C9 as stated: for a table of a header row, a separator row and body rows,
\* the separator row is not rendered and the cell in column j of every
\* rendered row, header or body, has the alignment of separator cell j.
C9_AsStated ==
    \A k \in 1..Len(TableWidgets) :
        LET rows == tableRows(TableWidgets[k].tableMarkdown)
            dom == tableDom[k].rows
        IN  HeaderSeparatorBody(rows)
                => /\ Len(dom) = Len(rows) - 1
                   /\ \A r \in 1..Len(dom) :
                         /\ ~\A j \in 1..Len(dom[r]) : isSeparatorCell(dom[r][j].textContent)
                         /\ \A j \in 1..Len(dom[r]) :
                               j <= Len(rows[2])
                                  => dom[r][j].className
                                        = cellClass(parseAlignment(rows[2][j]))

\* The first lines of the table blocks of the document.
TableStarts ==
    {n \in 1..Len(CurLines) : isTableRow(CurLines[n].text) /\ RunStart(n) = n}

\* C10: a table block whose start line lies in no visible range gets no
\* table widget, even when a later line of the block is visible.
C10_NoWidgetWithoutStart ==
    \A n \in TableStarts :
        ~VisibleLine(n)
            => \A i \in 1..Len(decorations) :
                   ~(/\ decorations[i].widget = "Table"
                     /\ CurLines[n].from <= decorations[i].from
                     /\ decorations[i].from <= CurLines[RunEnd(n)].to)

\* The first row of a table is above the viewport and a later row is in it.
C10_Witness ==
    \E n \in TableStarts :
        /\ ~VisibleLine(n)
        /\ \E j \in (n + 1)..RunEnd(n) : VisibleLine(j)
        /\ TableWidgets = <<>>

\* The id is the id of no listed block.
Unlisted(id) == \A k \in 1..Len(Blocks) : Blocks[k].id # id

\* C11: for a block-reference token whose id has no mapping in the label
\* provider, or when no label provider is supplied, the widget emitted for
\* the token carries the raw id as its label.
C11_RawIdLabel ==
    \A c \in Found("block") :
        (~opts.blockLabel \/ Unlisted(c[2].id))
            => /\ ~Touches(SpanFrom(c), SpanTo(c))
                    => Has(PillDeco(c[2].id, c[2].id, SpanFrom(c), SpanTo(c)))
               /\ \A i \in Within("block", SpanFrom(c), SpanTo(c)) :
                     /\ decorations[i].id = c[2].id
                     /\ decorations[i].label = c[2].id

\* With a label provider, the token of an unlisted id is labelled with the
\* id while the token of a listed id is labelled with the block's title.
C11_Witness ==
    /\ opts.blockLabel
    /\ \E c \in Found("block") :
          /\ Unlisted(c[2].id)
          /\ Has(PillDeco(c[2].id, c[2].id, SpanFrom(c), SpanTo(c)))
    /\ \E c \in Found("block") :
          /\ ~Unlisted(c[2].id)
          /\ \E i \in Within("block", SpanFrom(c), SpanTo(c)) :
                decorations[i].label # c[2].id

Starts(decos) == {decos[i].from : i \in 1..Len(decos)}

\* The decorations of a list that start at offset p, in the order of the list.
StartingAt(decos, p) ==
    LET at(d) == d.from = p
    IN  SelectSeq(decos, at)

\* The decorations of a list of one kind that start at offset p.
StartingAtOfKind(decos, p, kind) ==
    LET at(d) == d.from = p /\ d.kind = kind
    IN  SelectSeq(decos, at)

\* The decorations in the order the rebuild emitted them.
Emitted == pushedDecos(doc, visibleRanges, sel)

\* The stored set is ordered by non-decreasing start offset.
OrderedByFrom ==
    \A i \in 1..(Len(decorations) - 1) : decorations[i].from <= decorations[i + 1].from

\* The order in which the host ranks the kinds of decoration at one offset.
KindRank(kind) ==
    CASE kind = "line" -> 1
      [] kind = "widget" -> 2
      [] kind = "replace" -> 3
      [] kind = "mark" -> 4

\* C13 as stated: the stored set is ordered by non-decreasing start offset
\* and the decorations of equal start offset are in the order in which they
\* were emitted.
C13_AsStated ==
    /\ OrderedByFrom
    /\ LET emitted == Emitted
       IN  \A p \in Starts(emitted) \cup Starts(decorations) :
               StartingAt(decorations, p) = StartingAt(emitted, p)

\* C13 amended: the stored set is ordered by non-decreasing start offset; at
\* equal start offset line decorations come before widgets, widgets before
\* replacements and replacements before marks, and the decorations of one
\* kind at one start offset are in the order in which they were emitted.
C13_OrderedByFromAndKind ==
    /\ OrderedByFrom
    /\ \A i \in 1..(Len(decorations) - 1) :
          decorations[i].from = decorations[i + 1].from
              => KindRank(decorations[i].kind) <= KindRank(decorations[i + 1].kind)
    /\ LET emitted == Emitted
       IN  \A p \in Starts(emitted) \cup Starts(decorations) :
               \A kind \in {"line", "widget", "replace", "mark"} :
                   StartingAtOfKind(decorations, p, kind)
                       = StartingAtOfKind(emitted, p, kind)

\* A heading whose marker replacement was emitted before its line class: the
\* stored set has the line class first.
C13_Witness ==
    \E i \in 1..(Len(decorations) - 1) :
        /\ decorations[i].src = "heading" /\ decorations[i].kind = "line"
        /\ decorations[i + 1].src = "heading" /\ decorations[i + 1].kind = "replace"
        /\ decorations[i].from = decorations[i + 1].from
        /\ StartingAt(Emitted, decorations[i].from) # StartingAt(decorations, decorations[i].from)

\* C14: the plugin rebuilds on every update that reports a document, viewport
\* or selection change and keeps the stored set on any other update, so the
\* stored set is always buildDecorations of the current document, visible
\* ranges and selection, and it changes only in a step that changes one of
\* them.
C14_StoredIsCurrent ==
    /\ [](decorations = buildDecorations(doc, visibleRanges, sel))
    /\ [][decorations' # decorations
             => (doc' # doc \/ visibleRanges' # visibleRanges \/ sel' # sel)]_vars

\* After the selection has moved into a construct and the viewport has been
\* cut, the stored set shows the construct revealed.
C14_Witness ==
    /\ sel.from > 0
    /\ Len(visibleRanges) > 1
    /\ Len(decorations) > 0
    /\ \E c \in SelectionConstructs : Touches(c.from, c.to) /\ Revealed(c)

\* The number of # characters line n starts with.
Hashes(n) == FirstNotIn(CurLines[n].text, {"#"}, 0)

\* The length of the leading hashes of line n and the whitespace after them.
MarkerLen(n) == FirstNotIn(CurLines[n].text, WhiteSpace, Hashes(n))

\* Line n starts with 1 to 6 # characters followed by whitespace.
HeadingLine(n) == 1 <= Hashes(n) /\ Hashes(n) <= 6 /\ MarkerLen(n) > Hashes(n)

\* The line classes the heading branch attaches at the start of line n.
HeadingClasses(n) ==
    {decorations[i].class :
        i \in {k \in 1..Len(decorations) :
                  /\ decorations[k].src = "heading"
                  /\ decorations[k].kind = "line"
                  /\ decorations[k].from = CurLines[n].from}}

\* C15: for a visible line that starts with 1 to 6 # characters followed by
\* whitespace, the marker span (hashes and following whitespace) is hidden
\* exactly when the selection does not intersect the marker span, and the
\* line gets the heading style of the depth given by the number of #
\* characters in both cases.
C15_Heading ==
    \A n \in InlineLines :
        HeadingLine(n)
            => LET start == CurLines[n].from
                   end == CurLines[n].from + MarkerLen(n)
               IN  /\ Covers("heading", "replace", start, end) <=> ~Touches(start, end)
                   /\ Touches(start, end) => HiddenChars("heading", start, CurLines[n].to) = {}
                   /\ HeadingClasses(n) = {headingClass(Hashes(n))}

\* A heading of depth 6 with the cursor in its text, after the marker: the
\* marker is hidden.
C15_Witness ==
    \E n \in InlineLines :
        /\ HeadingLine(n)
        /\ Hashes(n) = 6
        /\ Touches(CurLines[n].from, CurLines[n].to)
        /\ ~Touches(CurLines[n].from, CurLines[n].from + MarkerLen(n))
        /\ Covers("heading", "replace", CurLines[n].from, CurLines[n].from + MarkerLen(n))

\* The directive of each alignment type.
Directive(type) ==
    CASE type = "left" -> AlignLeft
      [] type = "center" -> AlignCenter
      [] type = "right" -> AlignRight

\* The alignment directives of the visible lines: <<line, column, type>>.
Directives ==
    {d \in InlineLines \X (0..Len(doc)) \X {"left", "center", "right"} :
        StartsWithAt(CurLines[d[1]].text, Directive(d[3]), d[2])}

\* C16: every alignment directive occurring anywhere in a visible line is
\* hidden over its whole span for every selection, a selection inside the
\* directive included, and the line gets the line class of the directive's
\* alignment.
C16_AlignmentHidden ==
    \A d \in Directives :
        LET start == CurLines[d[1]].from + d[2]
            end == start + Len(Directive(d[3]))
        IN  /\ Covers("alignment", "replace", start, end)
            /\ Has(LineDeco("alignment", alignmentClass(d[3]), CurLines[d[1]].from))

\* The cursor is inside one of three hidden directives of three alignments.
C16_Witness ==
    /\ Cardinality({d[3] : d \in Directives}) = 3
    /\ \E d \in Directives :
          LET start == CurLines[d[1]].from + d[2]
              end == start + Len(Directive(d[3]))
          IN  /\ sel.from = sel.to /\ start < sel.from /\ sel.from < end
              /\ Covers("alignment", "replace", start, end)

\* The fenced-code regions the pre-scan records for the current document.
Recorded == codeBlockRanges(doc, CurLines)

\* The lines that start with a triple backtick, in document order.
FenceLines ==
    LET isFence(n) == StartsWithAt(CurLines[n].text, Fence, 0)
    IN  SelectSeq([n \in 1..Len(CurLines) |-> n], isFence)

\* Scanning the fence lines in order, each opening fence with the next fence
\* as its closer: <<opening line, closing line>> pairs.
FencePairs ==
    {<<FenceLines[2 * k - 1], FenceLines[2 * k]>> : k \in 1..(Len(FenceLines) \div 2)}

\* C17 as stated: the pre-scan records one region for every pair of an
\* opening line-start fence and the next closing one, wherever in the
\* document the opening fence is.
C17_AsStated ==
    {<<Recorded[k].startLine, Recorded[k].endLine>> : k \in 1..Len(Recorded)} = FencePairs

\* C18 as stated: when the last opening fence has no closing fence after it,
\* the pre-scan records a region from that fence to the end of the document.
C18_AsStated ==
    Len(FenceLines) % 2 = 1
        => \E k \in 1..Len(Recorded) :
               /\ Recorded[k].startLine = FenceLines[Len(FenceLines)]
               /\ Recorded[k].start = CurLines[FenceLines[Len(FenceLines)]].from
               /\ Recorded[k].end = Len(doc)

\* The table-block regions the pre-scan records for the current document.
RecordedTables == tableBlockRanges(CurLines)

\* The recorded table-block regions are exactly the maximal runs of the
\* lines of rows: each region is a run of lines of rows that no line of rows
\* touches, regions are in document order with a line between them, and
\* every line of rows is in exactly one region.
RegionsAreRunsOf(rows) ==
    /\ \A k \in 1..Len(RecordedTables) :
          LET r == RecordedTables[k]
          IN  /\ r.startLine <= r.endLine
              /\ \A n \in r.startLine..r.endLine : n \in rows
              /\ (r.startLine - 1) \notin rows
              /\ (r.endLine + 1) \notin rows
              /\ r.startPos = CurLines[r.startLine].from
              /\ r.endPos = CurLines[r.endLine].to
    /\ \A k \in 1..(Len(RecordedTables) - 1) :
          RecordedTables[k].endLine + 1 < RecordedTables[k + 1].startLine
    /\ \A n \in rows :
          Cardinality({k \in 1..Len(RecordedTables) :
                          RecordedTables[k].startLine <= n
                          /\ n <= RecordedTables[k].endLine}) = 1

\* The lines that hold at least two pipes after trimming.
TwoPipeLines ==
    {n \in 1..Len(CurLines) : CountChar(Trim(CurLines[n].text), "|", 0) >= 2}

\* The lines that, after trimming, start with a pipe and hold at least two.
LeadingPipeLines ==
    {n \in TwoPipeLines : Trim(CurLines[n].text)[1] = "|"}

\* C19 as stated: a line is a table row exactly when it holds at least two
\* pipes after trimming, and the recorded regions are exactly the maximal
\* runs of such lines.
C19_AsStated == RegionsAreRunsOf(TwoPipeLines)

\* C19 amended: a line is a table row exactly when, after trimming, it
\* starts with a pipe and holds at least two pipes, and the recorded regions
\* are exactly the maximal runs of such lines.
C19_RunsOfLeadingPipeRows == RegionsAreRunsOf(LeadingPipeLines)

\* A line of two pipes that does not start with one is left out of the
\* region of the rows after it.
C19_Witness ==
    \E n \in TwoPipeLines \ LeadingPipeLines :
        /\ (n + 1) \in LeadingPipeLines
        /\ \E k \in 1..Len(RecordedTables) : RecordedTables[k].startLine = n + 1

\* The code-block line style is attached at the start of line n.
CodeBlockStyled(n) == Has(LineDeco("codeblock", "cm-live-code-block", CurLines[n].from))

WidgetRows(k) == tableRows(TableWidgets[k].tableMarkdown)

\* The cells of the table widgets of the stored set.
WidgetCells ==
    UNION {UNION {{WidgetRows(k)[r][j] : j \in 1..Len(WidgetRows(k)[r])} :
                     r \in 1..Len(WidgetRows(k))} : k \in 1..Len(TableWidgets)}

\* Whether a cell starts, or ends, with a colon.
ColonLeft(cell) == cell # <<>> /\ cell[1] = ":"
ColonRight(cell) == cell # <<>> /\ cell[Len(cell)] = ":"

\* The cell is one or more dashes with an optional colon on either side.
AlignmentMarker(cell) ==
    LET from == IF ColonLeft(cell) THEN 2 ELSE 1
        to == IF ColonRight(cell) THEN Len(cell) - 1 ELSE Len(cell)
    IN  from <= to /\ \A i \in from..to : cell[i] = "-"

\* The alignment the colons of a separator cell stand for.
AlignmentOf(cell) ==
    IF ColonLeft(cell) /\ ColonRight(cell) THEN "center"
    ELSE IF ColonRight(cell) THEN "right"
    ELSE "left"

\* C21: for every cell that is dashes with an optional leading and trailing
\* colon, parseAlignment gives center for a colon on both sides, right for a
\* colon only on the right, and left for a colon only on the left or no
\* colon; the cells under a separator row get the class of that alignment.
C21_ParseAlignment ==
    /\ \A cell \in WidgetCells :
          AlignmentMarker(cell) => parseAlignment(cell) = AlignmentOf(cell)
    /\ \A k \in 1..Len(TableWidgets) :
          \A r \in 2..Len(WidgetRows(k)) :
              (IsSeparatorRow(WidgetRows(k)[r - 1]) /\ ~IsSeparatorRow(WidgetRows(k)[r]))
                  => \A j \in 1..Len(WidgetRows(k)[r]) :
                         j <= Len(WidgetRows(k)[r - 1])
                             => \E row \in 1..Len(tableDom[k].rows) :
                                    /\ j <= Len(tableDom[k].rows[row])
                                    /\ tableDom[k].rows[row][j].textContent = WidgetRows(k)[r][j]
                                    /\ tableDom[k].rows[row][j].className
                                          = cellClass(AlignmentOf(WidgetRows(k)[r - 1][j]))

\* A table with a centred and a right-aligned column and a cell rendered
\* under each.
C21_Witness ==
    /\ \E cell \in WidgetCells : AlignmentMarker(cell) /\ AlignmentOf(cell) = "center"
    /\ \E cell \in WidgetCells : AlignmentMarker(cell) /\ AlignmentOf(cell) = "right"
    /\ \E k \in 1..Len(tableDom) : \E row \in 1..Len(tableDom[k].rows) :
          \E j \in 1..Len(tableDom[k].rows[row]) :
              tableDom[k].rows[row][j].className = "align-center"

\* The lines of the k-th table widget of the stored set.
WidgetLines(k) == Split(Trim(TableWidgets[k].tableMarkdown), "\n", 0)

\* The trimmed fields of a line between its pipes, without an empty first
\* field and without an empty last field.
OuterFieldsDropped(line) ==
    LET fields == Split(line, "|", 0)
        trimmed == [k \in 1..Len(fields) |-> Trim(fields[k])]
        first == IF Len(trimmed) > 0 /\ trimmed[1] = <<>> THEN 2 ELSE 1
        last == IF Len(trimmed) >= first /\ trimmed[Len(trimmed)] = <<>>
                THEN Len(trimmed) - 1 ELSE Len(trimmed)
    IN  [k \in 1..(last - first + 1) |-> trimmed[first + k - 1]]

\* C22: the cells of each line of a table are its fields between the pipes,
\* trimmed, without the empty fields before the first pipe and after the
\* last one; an empty field in the interior of the row stays a cell.
C22_AsStated ==
    \A k \in 1..Len(TableWidgets) :
        \A n \in 1..Len(WidgetLines(k)) :
            rowCells(WidgetLines(k)[n]) = OuterFieldsDropped(WidgetLines(k)[n])

\* The tags of the cells of a rendered row.
TagsOf(row) == {row[j].tag : j \in 1..Len(row)}

\* C23: in every rendered table, also one whose first line is a separator
\* row, the first row that is not a separator is rendered as header cells
\* and every later row that is not a separator as body cells.
C23_AsStated ==
    \A k \in 1..Len(tableDom) :
        \A r \in 1..Len(tableDom[k].rows) :
            TagsOf(tableDom[k].rows[r]) = {IF r = 1 THEN "th" ELSE "td"}

\* The branches of the line loop that decorate inline constructs.
InlineBranches ==
    {"code", "link", "block", "heading", "bold", "italic", "strikethrough", "alignment"}

\* The stored decorations of the inline branches that start on line n.
InlineOn(n) ==
    {i \in 1..Len(decorations) :
        /\ decorations[i].src \in InlineBranches
        /\ CurLines[n].from <= decorations[i].from
        /\ decorations[i].from <= CurLines[n].to}

\* The table widget is emitted once and every row is hidden once.
OneWidgetOneHidePerRow(n) ==
    /\ Count(TableDeco(joinLines(CurLines, n, RunEnd(n)), CurLines[n].from)) = 1
    /\ \A j \in n..RunEnd(n) :
          Count(Replace("table", CurLines[j].from, CurLines[j].to)) = 1

\* C24 as stated: for a table block whose start line is visible there is
\* exactly one table widget at the start of the block and exactly one
\* replace over each whole row, whatever the selection, and no decoration of
\* an inline construct on any row of the block.
C24_AsStated ==
    \A n \in VisibleTableStarts :
        /\ OneWidgetOneHidePerRow(n)
        /\ \A j \in n..RunEnd(n) : InlineOn(j) = {}

\* The visible ranges are pairwise disjoint and in document order.
DisjointRanges ==
    \A k \in 1..(Len(visibleRanges) - 1) : visibleRanges[k].to < visibleRanges[k + 1].from

\* C25 as stated: with pairwise disjoint visible ranges every line is
\* processed at most once in a rebuild, so no two decorations of the stored
\* set are of the same kind, over the same span and from the same construct.
C25_AsStated ==
    DisjointRanges
        => \A i, j \in 1..Len(decorations) :
               (/\ decorations[i].kind = decorations[j].kind
                /\ decorations[i].from = decorations[j].from
                /\ decorations[i].to = decorations[j].to
                /\ decorations[i].src = decorations[j].src) => i = j

\* Line n is strictly between the start line and the end line of a recorded
\* fenced-code region.
Interior(n) ==
    \E k \in 1..Len(Recorded) : Recorded[k].startLine < n /\ n < Recorded[k].endLine

\* The inline code spans found on line n that the selection leaves alone
\* carry the inline code style.
InlineCodeStyledOn(n) ==
    \A c \in Found("code") :
        (c[1] = n /\ ~Touches(SpanFrom(c), SpanTo(c)))
            => Has(Mark("code", "cm-live-code", SpanFrom(c) + 1, SpanTo(c) - 1))

\* C26 as stated: a visible line has the code-block line style exactly when
\* it is strictly between the start line and the end line of a recorded
\* region, and the inline detectors still run on such a line.
C26_AsStated ==
    \A n \in 1..Len(CurLines) :
        VisibleLine(n)
            => /\ CodeBlockStyled(n) <=> Interior(n)
               /\ Interior(n) => InlineCodeStyledOn(n)

\* The paths of the tab strip.
OpenPaths == {openOrder[i] : i \in 1..Len(openOrder)}

\* No path is twice in the tab strip.
NoDuplicateTab == \A i, j \in 1..Len(openOrder) : openOrder[i] = openOrder[j] => i = j

\* C27 as stated: whatever the interleaving of openTab, createNewFile,
\* createFromTemplate, closeTab, saveActive and performSaveAs, openOrder has
\* no path twice and holds exactly the keys of tabsByPath.
C27_AsStated == NoDuplicateTab /\ OpenPaths = DOMAIN tabsByPath

\* The tabs of the strip that are marked as saved.
CleanTabs == {p \in OpenPaths \cap DOMAIN tabsByPath : ~tabsByPath[p].dirty}

\* C28 as stated: whatever the interleaving of updateActiveContent,
\* insertBlock, tab switches and saveActive, a tab whose dirty flag is false
\* has the content the repository holds for its path.
C28_AsStated ==
    \A p \in CleanTabs :
        p \in DOMAIN repoFiles /\ tabsByPath[p].content = repoFiles[p]

\* The step is closeTab(p): the tab of p is removed and no call begins or ends.
ClosesTab(p) ==
    /\ p \in DOMAIN tabsByPath
    /\ tabsByPath' = Delete(tabsByPath, p)
    /\ calls' = calls

\* The tab next to p in the strip: the one before it, or the one after it
\* when p is first.
Neighbour(p) ==
    LET i == indexOf(openOrder, p) + 1
    IN  IF i > 1 THEN openOrder[i - 1] ELSE At(openOrder, i)

\* C29 as stated: when closeTab(p) has removed a tab and a tab remains,
\* activePath names an open tab: the neighbour of p when p was active, and
\* the tab that was active before otherwise.
C29_AsStated ==
    [][\A p \in DOMAIN tabsByPath :
          (ClosesTab(p) /\ openOrder' # <<>>)
              => /\ includes(openOrder', activePath')
                 /\ activePath' = IF p = activePath THEN Neighbour(p) ELSE activePath]_vars

\* The content of the active tab, which refreshPreview reads.
Raw == IF activePath \in DOMAIN tabsByPath THEN tabsByPath[activePath].content ELSE <<>>

\* The end of the block reference that begins at offset i of text, or -1
\* when none begins there.
TokenEnd(text, i) ==
    LET a == i + Len(BlockOpen)
        j == FirstNotIn(text, IdChars, a)
    IN  IF /\ StartsWithAt(text, BlockOpen, i)
           /\ j > a
           /\ StartsWithAt(text, <<"]", "]">>, j)
        THEN j + 2
        ELSE -1

\* The text from offset i on, with every block reference of the text
\* replaced where it stands by the content of its block, or by the note of
\* a missing block, and everything else left as it is.
RECURSIVE Substituted(_, _)
Substituted(text, i) ==
    IF i >= Len(text) THEN <<>>
    ELSE IF TokenEnd(text, i) > 0
    THEN LET id == Slice(text, i + Len(BlockOpen), TokenEnd(text, i) - 2)
             path == "blocks/" \o StringOf(id) \o ".md"
         IN  (IF path \in DOMAIN repoFiles THEN repoFiles[path] ELSE MissingBlock(id))
             \o Substituted(text, TokenEnd(text, i))
    ELSE <<text[i + 1]>> \o Substituted(text, i + 1)

\* C30: the markdown renderAssembledHtml renders is the raw text with every
\* block reference replaced at its own position by the content loadBlock
\* returns, or by the note of a missing block when loadBlock fails; the text
\* outside the references is unchanged and references inside the substituted
\* content are not expanded.
C30_Assembled ==
    [][previewHtml' # previewHtml
          => previewHtml' = render(Substituted(Raw, 0))]_vars

\* The preview of a document with the same reference twice, or with a
\* reference to a block that holds a reference, and with a reference to a
\* missing block.
C30_Witness ==
    /\ Len(blockRe(Raw)) >= 2
    /\ \E k \in 1..Len(blockRe(Raw)) : blockRe(Raw)[k].id = <<"x">>
    /\ \E k \in 1..Len(blockRe(Raw)) : blockRe(Raw)[k].id = <<"n", "o">>
    /\ previewHtml = render(Substituted(Raw, 0))
    /\ previewHtml # render(Raw)

====
